---------------------------- MODULE Spec2Model ----------------------------
(***************************************************************************)
(* A model of the gzip decompressor: the TrackingWriter (sliding window,   *)
(* CRC digest, byte count), the BitReader, the Huffman tables, the DEFLATE *)
(* block reader and the member driver `decompress`.                        *)
(*                                                                         *)
(* The specifications share the variables:                                 *)
(*   SpecTW  calls write / write_previous on one TrackingWriter whose sink *)
(*           is a bounded slice that may also reject a call;               *)
(*   Spec    runs `decompress` on one input byte string;                   *)
(*   SpecLen applies the trailer length check of `decompress` to a byte    *)
(*           count and an ISIZE field;                                     *)
(*   SpecBits calls read_bits / borrow_reader_from_boundary on a BitReader *)
(*           over one byte string;                                         *)
(*   SpecHuff builds a HuffmanCoding with from_lengths and looks symbols   *)
(*           up in it;                                                     *)
(*   SpecBlocks calls next_block on one DeflateReader over one stream;     *)
(*   SpecTok  runs the length / distance arithmetic of the symbol loop.    *)
(***************************************************************************)
EXTENDS Integers, Sequences, FiniteSets, TLC

VARIABLES
    writer,     \* SpecTW: the TrackingWriter under test
    ret,        \* SpecTW: what the last call was and what it returned
    calls,      \* SpecTW: number of calls made so far
    input,      \* Spec: the whole input byte string
    chunk,      \* Spec: how many bytes one fill of the source's buffer holds
    pos,        \* Spec: number of input bytes consumed from the source
    bit_reader, \* Spec: BitReader {buffer, len} of the current member
    tracker,    \* Spec: the DeflateReader's TrackingWriter<Vec<u8>>
    is_avail,   \* Spec: DeflateReader::is_avail
    output,     \* Spec: the bytes written to decompress's output sink
    pc,         \* Spec: position of decompress in its member loop
    result,     \* Spec: "running", "ok", or the error decompress returned
    member,     \* Spec: number of the member being read, its blocks so far
    expect,     \* Spec: what the input was built from (members' ends, payloads)
    byte_n,     \* SpecLen: a member's byte count (usize)
    data_size,  \* SpecLen: the trailer's ISIZE (u32)
    len_ok,     \* SpecLen: outcome of the length check ("none" before it)
    coding,     \* SpecHuff: the HuffmanCoding built by from_lengths
    call        \* SpecBits, SpecHuff, SpecBlocks, SpecTok: the last call and its result

varsTW  == <<writer, ret, calls>>
varsGz  == <<input, chunk, pos, bit_reader, tracker, is_avail, output, pc, result,
             member, expect>>
varsLen == <<byte_n, data_size, len_ok>>
varsFn  == <<coding, call>>
vars    == <<varsTW, varsGz, varsLen, varsFn>>

----------------------------------------------------------------------------
(* Arithmetic helpers *)

Min(a, b) == IF a < b THEN a ELSE b

RECURSIVE Pow2(_)
Pow2(n) == IF n = 0 THEN 1 ELSE 2 * Pow2(n - 1)

\* Bitwise or of two naturals.
RECURSIVE BitOr(_, _)
BitOr(a, b) ==
    IF a = 0 THEN b
    ELSE IF b = 0 THEN a
    ELSE (IF (a % 2) + (b % 2) > 0 THEN 1 ELSE 0) + 2 * BitOr(a \div 2, b \div 2)

\* (`\o <<>>` makes TLC keep the result as a tuple, which it indexes directly.)
Reverse(s) == [i \in 1..Len(s) |-> s[Len(s) + 1 - i]] \o <<>>

\* `let v = x; K(v)`: the rest K of a function runs on the value of x.
\* (The set binds v to the value of x, so that x is evaluated once.)
Let(x, K(_)) == CHOOSE r \in {K(v) : v \in {x}} : TRUE

\* A failed call: what `?` hands on to the caller.
Err(msg) == [ok |-> FALSE, err |-> msg]

\* `let v = x?; K(v)`: the rest K of the function runs on the value of a
\* successful x, a failed x is returned as it is.
Try(x, K(_)) == CHOOSE r \in {IF v.ok THEN K(v) ELSE v : v \in {x}} : TRUE

\* `?` inside the loops of read_block: the error is handed on, and the
\* tracker of the DeflateReader stays as the loop left it, w.
TryIn(x, w, K(_)) ==
    CHOOSE r \in {IF v.ok THEN K(v) ELSE [ok |-> FALSE, err |-> v.err, writer |-> w] :
                     v \in {x}} : TRUE


Drop(s, n) == SubSeq(s, n + 1, Len(s))

----------------------------------------------------------------------------
(* Fixed-width integers.  TLC's integers are 32-bit signed, so a u32 and a   *)
(* usize are kept as their little-endian base-256 digits (4 and 8 of them)  *)
(* wherever their full range matters.                                       *)

\* The k little-endian base-256 digits of the natural n.
RECURSIVE Digits(_, _)
Digits(n, k) == IF k = 0 THEN <<>> ELSE <<n % 256>> \o Digits(n \div 256, k - 1)

\* `x as usize` for a u32 x on a 64-bit target: zero extension.
U32AsUsize(d) == d \o <<0, 0, 0, 0>>

\* The value of a u16 from its two little-endian bytes.
U16LE(b0, b1) == b0 + 256 * b1

BitsOfByte(b) == [i \in 1..8 |-> (b \div Pow2(i - 1)) % 2] \o <<>>

\* The 32 bits, least significant first, of a u32 given by its digits.
Bits32(d) == BitsOfByte(d[1]) \o BitsOfByte(d[2]) \o BitsOfByte(d[3]) \o BitsOfByte(d[4])

ByteOfBits(bits, j) ==
    bits[8 * j + 1] + 2 * bits[8 * j + 2] + 4 * bits[8 * j + 3] + 8 * bits[8 * j + 4]
    + 16 * bits[8 * j + 5] + 32 * bits[8 * j + 6] + 64 * bits[8 * j + 7]
    + 128 * bits[8 * j + 8]

\* The digits of the u32 whose bits are `bits`.
DigitsOfBits(bits) == [j \in 1..4 |-> ByteOfBits(bits, j - 1)] \o <<>>

XorBits(a, b) == [i \in 1..32 |-> (a[i] + b[i]) % 2] \o <<>>

ShiftRight1(c) == [i \in 1..32 |-> IF i < 32 THEN c[i + 1] ELSE 0] \o <<>>

----------------------------------------------------------------------------
(* CRC-32/ISO-HDLC, the algorithm of `Crc::<u32>::new(&CRC_32_ISO_HDLC)`:   *)
(* reflected polynomial 0xEDB88320, initial value and final xor 0xFFFFFFFF. *)

CrcPolyBits == Bits32(<<32, 131, 184, 237>>)

CrcOnes == [i \in 1..32 |-> 1] \o <<>>

RECURSIVE CrcShift(_, _)
CrcShift(c, k) ==
    IF k = 0 THEN c
    ELSE Let(IF c[1] = 1 THEN XorBits(ShiftRight1(c), CrcPolyBits) ELSE ShiftRight1(c),
             LAMBDA c1 : CrcShift(c1, k - 1))

RECURSIVE CrcUpdate(_, _, _)
CrcUpdate(c, bytes, i) ==
    IF i > Len(bytes) THEN c
    ELSE Let(CrcShift(XorBits(c, Bits32(<<bytes[i], 0, 0, 0>>)), 8),
             LAMBDA c1 : CrcUpdate(c1, bytes, i + 1))

\* Digest::finalize of a digest that was fed `bytes`, as the digits of the u32.
Crc32(bytes) == DigitsOfBits(XorBits(CrcUpdate(CrcOnes, bytes, 1), CrcOnes))

----------------------------------------------------------------------------
(* TrackingWriter (tracking_writer.rs) *)

HISTORY_SIZE == 32768

\* The two sinks the repository writes through: `&mut [u8]` (the tests), which
\* accepts as many bytes as it has room for and never fails, and `Vec<u8>`
\* (DeflateReader), which accepts everything.
SliceSink(cap) == [kind |-> "slice", data |-> <<>>, cap |-> cap]

VecSink == [kind |-> "vec", data |-> <<>>, cap |-> 0]

\* Number of bytes `inner.write(buf)` accepts.
SinkAccept(s, buf) ==
    IF s.kind = "vec" THEN Len(buf) ELSE Min(Len(buf), s.cap - Len(s.data))

SinkPut(s, bytes) == [s EXCEPT !.data = @ \o bytes]

\* RingPush evicting only when the deque is longer than HISTORY_SIZE.
RingPush_LateEvict(q, byte) ==
    IF Len(q) > HISTORY_SIZE
    THEN <<byte>> \o SubSeq(q, 1, Len(q) - 1)
    ELSE <<byte>> \o q

\* One iteration of RingBuffer::write_slice: the deque's front is index 1.
RingPush(q, byte) ==
    IF Len(q) >= HISTORY_SIZE
    THEN <<byte>> \o SubSeq(q, 1, Len(q) - 1)
    ELSE <<byte>> \o q

\* RingBuffer::write_slice: RingPush for every byte of buf in order.  Every
\* iteration pushes one byte at the front and pops the back first when the
\* deque already holds HISTORY_SIZE bytes, so after the loop the deque is
\* the reversed buf followed by the old deque, cut to the length the loop
\* leaves.
write_slice(q, buf) ==
    LET k == Len(buf)
        n == IF k = 0 \/ Len(q) >= HISTORY_SIZE
             THEN Len(q)
             ELSE Min(Len(q) + k, HISTORY_SIZE)
    IN  IF k = 1 THEN RingPush(q, buf[1])
        ELSE SubSeq(Reverse(buf) \o q, 1, n)

\* TrackingWriter::new
TrackingWriterNew(inner) ==
    [digest |-> <<>>, inner |-> inner, byte_n |-> 0, buffer |-> <<>>]

\* write counting the whole buffer instead of the accepted prefix.
write_WholeBuf(w, buf, reject) ==
    IF reject
    THEN [writer |-> w, ok |-> FALSE, size |-> 0]
    ELSE LET size    == SinkAccept(w.inner, buf)
             eff_buf == SubSeq(buf, 1, size)
         IN  [writer |-> [digest |-> w.digest \o buf,
                          inner  |-> SinkPut(w.inner, eff_buf),
                          byte_n |-> w.byte_n + Len(buf),
                          buffer |-> write_slice(w.buffer, buf)],
              ok     |-> TRUE,
              size   |-> size]

\* <TrackingWriter as Write>::write.  `reject` is the sink returning Err for
\* this call.  The digest is the sequence of bytes it was updated with.
write(w, buf, reject) ==
    IF reject
    THEN [writer |-> w, ok |-> FALSE, size |-> 0]
    ELSE LET size    == SinkAccept(w.inner, buf)
             eff_buf == SubSeq(buf, 1, size)
         IN  [writer |-> [digest |-> w.digest \o eff_buf,
                          inner  |-> SinkPut(w.inner, eff_buf),
                          byte_n |-> w.byte_n + size,
                          buffer |-> write_slice(w.buffer, eff_buf)],
              ok     |-> TRUE,
              size   |-> size]

ErrSink == "sink error"

\* WriteBytesExt::write_u8 = Write::write_all(&[byte]): an accepted size of 0
\* is the error WriteZero.
write_u8(w, byte, reject) ==
    LET r == write(w, <<byte>>, reject)
    IN  [writer |-> r.writer, ok |-> r.ok /\ r.size = 1,
         err |-> IF r.ok /\ r.size = 1 THEN "" ELSE ErrSink]

ErrBackInTime == "Trying to go back in time"

ErrTooMuchHistory == "Trying to rewrite to much history"

\* write_previous_loop indexing the window with dist instead of dist - 1.
RECURSIVE write_previous_loop_OffByOne(_, _, _, _)
write_previous_loop_OffByOne(w, dist, len, i) ==
    IF i >= len THEN [writer |-> w, outcome |-> "ok", msg |-> ""]
    ELSE IF dist < 0 \/ dist >= Len(w.buffer)
    THEN [writer |-> w, outcome |-> "panic", msg |-> "index out of bounds"]
    ELSE LET r == write_u8(w, w.buffer[dist + 1], FALSE)
         IN  IF r.ok
             THEN write_previous_loop_OffByOne(r.writer, dist, len, i + 1)
             ELSE [writer |-> r.writer, outcome |-> "err", msg |-> ErrSink]

\* The loop of write_previous from iteration i on.  `dist - 1` is a usize
\* subtraction and `self.buffer.0[..]` a bounds-checked index: both panic
\* (the subtraction in a debug build, the index in a release build, where
\* it wraps to usize::MAX).  A byte the sink does not take ends the call
\* with the error of write_u8.
RECURSIVE write_previous_loop(_, _, _, _)
write_previous_loop(w, dist, len, i) ==
    IF i >= len THEN [writer |-> w, outcome |-> "ok", msg |-> ""]
    ELSE IF dist - 1 < 0 \/ dist - 1 >= Len(w.buffer)
    THEN [writer |-> w, outcome |-> "panic", msg |-> "index out of bounds"]
    ELSE LET r == write_u8(w, w.buffer[dist], FALSE)
         IN  IF r.ok
             THEN write_previous_loop(r.writer, dist, len, i + 1)
             ELSE [writer |-> r.writer, outcome |-> "err", msg |-> ErrSink]

\* write_previous without the check against HISTORY_SIZE.
write_previous_NoWindowCheck(w, dist, len) ==
    IF ~(dist <= w.byte_n)
    THEN [writer |-> w, outcome |-> "err", msg |-> ErrBackInTime]
    ELSE write_previous_loop(w, dist, len, 0)

\* TrackingWriter::write_previous
write_previous(w, dist, len) ==
    IF ~(dist <= w.byte_n)
    THEN [writer |-> w, outcome |-> "err", msg |-> ErrBackInTime]
    ELSE IF ~(dist <= HISTORY_SIZE)
    THEN [writer |-> w, outcome |-> "err", msg |-> ErrTooMuchHistory]
    ELSE write_previous_loop(w, dist, len, 0)

\* TrackingWriter::byte_count
byte_count(w) == w.byte_n

\* TrackingWriter::crc32
crc32(w) == Crc32(w.digest)

----------------------------------------------------------------------------
(* The byte source: `inp` is the whole input, `p` the number of bytes       *)
(* consumed.  read_u8 / read_u16 / read_u32 are read_exact, so they do not  *)
(* depend on how the source splits its data.                                *)

ErrEof == "failed to fill whole buffer"

\* ReadBytesExt::read_u8
read_u8(inp, p) ==
    IF p < Len(inp)
    THEN [ok |-> TRUE, err |-> "", value |-> inp[p + 1], pos |-> p + 1]
    ELSE Err(ErrEof)

\* read_exact of k bytes
read_exact(inp, p, k) ==
    IF p + k <= Len(inp)
    THEN [ok |-> TRUE, err |-> "", bytes |-> SubSeq(inp, p + 1, p + k), pos |-> p + k]
    ELSE Err(ErrEof)

\* ReadBytesExt::read_u16::<LittleEndian>
read_u16(inp, p) ==
    IF p + 2 <= Len(inp)
    THEN [ok |-> TRUE, err |-> "", value |-> U16LE(inp[p + 1], inp[p + 2]),
          bytes |-> SubSeq(inp, p + 1, p + 2), pos |-> p + 2]
    ELSE Err(ErrEof)

\* Number of bytes one `read` call can return at position p when the source
\* refills its buffer with `chk` bytes at a time.
Buffered(inp, p, chk) == Min(Len(inp) - p, chk - (p % chk))

----------------------------------------------------------------------------
(* BitSequence and BitReader (bit_reader.rs) *)

\* BitSequence::new: bits & ((1 << len) - 1)
BitSequenceNew(bits, len) == [bits |-> bits % Pow2(len), len |-> len]

\* concat without the shift of the appended bits
concat_NoShift(self, other) ==
    [bits |-> BitOr(self.bits, other.bits), len |-> self.len + other.len]

\* BitSequence::concat: self.bits | (other.bits << self.len) in u16
concat(self, other) ==
    [bits |-> BitOr(self.bits, (other.bits * Pow2(self.len)) % 65536),
     len  |-> self.len + other.len]

\* BitReader::new
BitReaderNew == [buffer |-> 0, len |-> 0]

\* BitReader::read_bits: the loop, with `len` bits still to read and `ans`
\* read so far.  r is the reader {buffer, len}, p the source position.
RECURSIVE read_bits_loop(_, _, _, _, _)
read_bits_loop(inp, r, p, len, ans) ==
    IF len = 0 THEN [ok |-> TRUE, err |-> "", seq |-> ans, reader |-> r, pos |-> p]
    ELSE IF r.len < len
    THEN Try(read_u8(inp, p), LAMBDA b :
             read_bits_loop(inp, [buffer |-> b.value, len |-> 8], b.pos, len - r.len,
                            concat(ans, BitSequenceNew(r.buffer, r.len))))
    ELSE LET ans1 == concat(ans, BitSequenceNew(r.buffer, len))
         IN  read_bits_loop(inp,
                            [buffer |-> r.buffer \div Pow2(len % 8),
                             len    |-> r.len - len],
                            p, 0, ans1)

read_bits(inp, r, p, len) == read_bits_loop(inp, r, p, len, BitSequenceNew(0, 0))

\* a borrow that keeps the buffered bits
borrow_reader_KeepBits(r) == r

\* BitReader::borrow_reader_from_boundary
borrow_reader_from_boundary(r) == [buffer |-> 0, len |-> 0]

----------------------------------------------------------------------------
(* Huffman coding (huffman_coding.rs).  A token is kept as the symbol index *)
(* it was converted from; `kind` names the token type of the table.         *)

MAX_BITS == 15

\* Largest symbol index the TryFrom<HuffmanCodeWord> of each token type accepts
\* ("value" is tests::Value, which accepts every u16).
MaxSymbol(kind) ==
    CASE kind = "litlen"   -> 285
      [] kind = "distance" -> 29
      [] kind = "treecode" -> 18
      [] kind = "value"    -> 65535

\* Whether HuffmanCodeWord(v).try_into() succeeds for the token type.
TokenOk(kind, v) == v <= MaxSymbol(kind)

TokenErr(kind) ==
    CASE kind = "litlen"   -> "Unable to decode LitLetToken"
      [] kind = "distance" -> "Unable to decode DistanceToken"
      [] kind = "treecode" -> "Unable to decode TreeCodeToken"

\* LitLenToken::Length.extra_bits of length code v (257..285)
LitLenExtraBits(v) ==
    IF (257 <= v /\ v <= 264) \/ v = 285 THEN 0 ELSE (v - 261) \div 4

\* DistanceToken.extra_bits of distance code v (0..29)
DistanceExtraBits(v) == IF v <= 3 THEN 0 ELSE (v - 2) \div 2

SeqMax(s) == CHOOSE m \in {s[i] : i \in 1..Len(s)} : \A i \in 1..Len(s) : s[i] <= m

\* length_counts of from_lengths: entry l (0..max) counts the symbols of
\* length l, entry 0 forced to 0.
LengthCounts(code_lengths, max) ==
    [l \in 0..max |->
        IF l = 0 THEN 0
        ELSE Cardinality({i \in 1..Len(code_lengths) : code_lengths[i] = l})]

\* next_codes of from_lengths, in u16 arithmetic.
RECURSIVE NextCodeAt(_, _)
NextCodeAt(length_counts, i) ==
    IF i = 0 THEN 0
    ELSE (((NextCodeAt(length_counts, i - 1) + length_counts[i - 1]) % 65536) * 2) % 65536

NextCodes(length_counts, max) == [i \in 0..max |-> NextCodeAt(length_counts, i)]

\* an insertion that does not step next_codes
InsertCode_NoStep(kind, code_lengths, i, st) ==
    LET len == code_lengths[i]
    IN  IF len = 0 THEN st
        ELSE IF ~TokenOk(kind, i - 1)
        THEN [st EXCEPT !.ok = FALSE, !.err = TokenErr(kind)]
        ELSE LET key == BitSequenceNew(st.next_codes[len], len)
             IN  [st EXCEPT !.map = (<<key.bits, key.len>> :> (i - 1)) @@ @]

\* One iteration of the insertion loop of from_lengths, for the symbol at
\* position i (symbol index i - 1).  A key inserted twice keeps the later
\* symbol.  st carries next_codes, the map and the error of a failed try_into.
InsertCode(kind, code_lengths, i, st) ==
    LET len == code_lengths[i]
    IN  IF len = 0 THEN st
        ELSE IF ~TokenOk(kind, i - 1)
        THEN [st EXCEPT !.ok = FALSE, !.err = TokenErr(kind)]
        ELSE LET key == BitSequenceNew(st.next_codes[len], len)
             IN  [st EXCEPT !.next_codes[len] = (@ + 1) % 65536,
                            !.map = (<<key.bits, key.len>> :> (i - 1)) @@ @]

\* The insertion loop of from_lengths over the positions lo..hi in order,
\* stopping at the first error (the range is halved to keep the evaluation
\* shallow).
RECURSIVE InsertCodes(_, _, _, _, _)
InsertCodes(kind, code_lengths, lo, hi, st) ==
    IF ~st.ok THEN st
    ELSE IF lo > hi THEN st
    ELSE IF lo = hi THEN InsertCode(kind, code_lengths, lo, st)
    ELSE LET mid  == (lo + hi) \div 2
             left == InsertCodes(kind, code_lengths, lo, mid, st)
         IN  IF ~left.ok THEN left
             ELSE InsertCodes(kind, code_lengths, mid + 1, hi, left)

ErrNoLengths == "Unable to find largest code length"

\* HuffmanCoding::<T>::from_lengths: the table maps <<codeword, length>> to
\* the symbol, or the construction fails.
from_lengths(kind, code_lengths) ==
    IF Len(code_lengths) = 0
    THEN Err(ErrNoLengths)
    ELSE LET max == SeqMax(code_lengths)
             length_counts == LengthCounts(code_lengths, max)
             st == InsertCodes(kind, code_lengths, 1, Len(code_lengths),
                               [ok |-> TRUE, err |-> "",
                                next_codes |-> NextCodes(length_counts, max),
                                map |-> <<>>])
         IN  [ok |-> st.ok, err |-> st.err, map |-> st.map]

\* HuffmanCoding::decode_symbol
decode_symbol(map, seq) ==
    IF <<seq.bits, seq.len>> \in DOMAIN map
    THEN [some |-> TRUE, value |-> map[<<seq.bits, seq.len>>]]
    ELSE [some |-> FALSE, value |-> 0]

ErrNoSymbol == "Unable to read symbol"

\* a read_symbol that appends each new bit above the bits read before
RECURSIVE read_symbol_loop_LsbFirst(_, _, _, _, _, _)
read_symbol_loop_LsbFirst(map, inp, r, p, symbol, i) ==
    IF i >= MAX_BITS THEN Err(ErrNoSymbol)
    ELSE Try(read_bits(inp, r, p, 1), LAMBDA b :
         Let(concat(symbol, b.seq), LAMBDA sym :
         Let(decode_symbol(map, sym), LAMBDA val :
             IF val.some
             THEN [ok |-> TRUE, err |-> "", value |-> val.value,
                   reader |-> b.reader, pos |-> b.pos]
             ELSE read_symbol_loop_LsbFirst(map, inp, b.reader, b.pos, sym, i + 1))))

\* HuffmanCoding::read_symbol, iteration i with `symbol` accumulated so far.
RECURSIVE read_symbol_loop(_, _, _, _, _, _)
read_symbol_loop(map, inp, r, p, symbol, i) ==
    IF i >= MAX_BITS THEN Err(ErrNoSymbol)
    ELSE Try(read_bits(inp, r, p, 1), LAMBDA b :
         Let(concat(b.seq, symbol), LAMBDA sym :
         Let(decode_symbol(map, sym), LAMBDA val :
             IF val.some
             THEN [ok |-> TRUE, err |-> "", value |-> val.value,
                   reader |-> b.reader, pos |-> b.pos]
             ELSE read_symbol_loop(map, inp, b.reader, b.pos, sym, i + 1))))

read_symbol(map, inp, r, p) ==
    read_symbol_loop(map, inp, r, p, BitSequenceNew(0, 0), 0)

----------------------------------------------------------------------------
(* The dynamic block header (huffman_coding.rs, decode_litlen_distance_trees) *)

\* MAP: the order in which the code-length code lengths are stored (0-based
\* symbol of the i-th stored length, i from 1).
MAP == <<16, 17, 18, 0, 8, 7, 9, 6, 10, 5, 11, 4, 12, 3, 13, 2, 14, 1, 15>>

ErrRepeatEmpty == "Trying to repeat empty buffer"

Repeat(x, cnt) == [j \in 1..cnt |-> x] \o <<>>

\* The `for i in 0..codelen_size` loop filling code_lengths (position
\* MAP[i] + 1 of the 19-entry vector) from 3-bit fields.
RECURSIVE read_code_lengths(_, _, _, _, _, _)
read_code_lengths(inp, r, p, code_lengths, i, codelen_size) ==
    IF i >= codelen_size
    THEN [ok |-> TRUE, err |-> "", reader |-> r, pos |-> p, lengths |-> code_lengths]
    ELSE Try(read_bits(inp, r, p, 3), LAMBDA b :
             read_code_lengths(inp, b.reader, b.pos,
                               [code_lengths EXCEPT ![MAP[i + 1] + 1] = b.seq.bits],
                               i + 1, codelen_size))

\* Extra bits and base count of the repeat symbols 16 (CopyPrev), 17 and 18
\* (RepeatZero).
RepeatBits(v) == CASE v = 16 -> 2 [] v = 17 -> 3 [] v = 18 -> 7

RepeatBase(v) == IF v = 18 THEN 11 ELSE 3

\* One of the two `while codes.len() < size` loops: code-length symbols are
\* read with the code-length table `dec` and expanded into `codes`.
RECURSIVE read_lengths_loop(_, _, _, _, _, _)
read_lengths_loop(dec, inp, r, p, codes, size) ==
    IF Len(codes) >= size
    THEN [ok |-> TRUE, err |-> "", reader |-> r, pos |-> p, lengths |-> codes]
    ELSE Try(read_symbol(dec, inp, r, p), LAMBDA symbol :
         IF symbol.value <= 15
         THEN read_lengths_loop(dec, inp, symbol.reader, symbol.pos,
                                Append(codes, symbol.value), size)
         ELSE Try(read_bits(inp, symbol.reader, symbol.pos, RepeatBits(symbol.value)),
                  LAMBDA cnt :
              IF symbol.value = 16 /\ Len(codes) = 0 THEN Err(ErrRepeatEmpty)
              ELSE read_lengths_loop(dec, inp, cnt.reader, cnt.pos,
                       codes \o Repeat(IF symbol.value = 16 THEN codes[Len(codes)] ELSE 0,
                                       cnt.seq.bits + RepeatBase(symbol.value)),
                       size)))

\* decode_litlen_distance_trees: HLIT, HDIST, HCLEN, the code-length code,
\* the literal/length lengths, then - with the code-length table built a
\* second time - the distance lengths, and the two tables.
decode_litlen_distance_trees(inp, r, p) ==
    Try(read_bits(inp, r, p, 5), LAMBDA hlit :
    Try(read_bits(inp, hlit.reader, hlit.pos, 5), LAMBDA hdist :
    Try(read_bits(inp, hdist.reader, hdist.pos, 4), LAMBDA hclen :
    Try(read_code_lengths(inp, hclen.reader, hclen.pos, Repeat(0, 19), 0,
                          hclen.seq.bits + 4), LAMBDA cl :
    Try(from_lengths("treecode", cl.lengths), LAMBDA code_decoder :
    Try(read_lengths_loop(code_decoder.map, inp, cl.reader, cl.pos, <<>>,
                          hlit.seq.bits + 257), LAMBDA litlen_codes :
    Try(from_lengths("treecode", cl.lengths), LAMBDA code_decoder2 :
    Try(read_lengths_loop(code_decoder2.map, inp, litlen_codes.reader, litlen_codes.pos,
                          <<>>, hdist.seq.bits + 1), LAMBDA distance_codes :
    Try(from_lengths("litlen", litlen_codes.lengths), LAMBDA litlen_coding :
    Try(from_lengths("distance", distance_codes.lengths), LAMBDA distance_coding :
        [ok |-> TRUE, err |-> "",
         reader |-> distance_codes.reader, pos |-> distance_codes.pos,
         litlen |-> litlen_coding.map, distance |-> distance_coding.map,
         litlen_lengths |-> litlen_codes.lengths,
         distance_lengths |-> distance_codes.lengths]))))))))))

----------------------------------------------------------------------------
(* DeflateReader (deflate.rs) *)

ErrNlen == "nlen check failed"

ErrReserved == "unsupported block type"

ErrPanic == "panic"

\* The `match length_base` of read_block plus the extra bits.
LengthOf(length_base, length_extra_bits) ==
    ((CASE length_base <= 264 -> length_base - 254
       [] 265 <= length_base /\ length_base <= 268 -> 11 + (length_base - 265) * 2
       [] 269 <= length_base /\ length_base <= 272 -> 19 + (length_base - 269) * 4
       [] 273 <= length_base /\ length_base <= 276 -> 35 + (length_base - 273) * 8
       [] 277 <= length_base /\ length_base <= 280 -> 67 + (length_base - 277) * 16
       [] 281 <= length_base /\ length_base <= 284 -> 131 + (length_base - 281) * 32
       [] length_base = 285 -> 258)
     + length_extra_bits) % 65536

\* a distance without the bases of the codes from 4 on
DistanceOf_Short(distance_base, distance_extra_bits) ==
    (distance_base + 1 + distance_extra_bits) % 65536

\* The `match distance_base` of read_block plus the extra bits, in u16.
DistanceOf(distance_base, distance_extra_bits) ==
    ((CASE distance_base <= 3 -> distance_base + 1
       [] 4 <= distance_base /\ distance_base <= 5 -> 5 + (distance_base - 4) * 2
       [] 6 <= distance_base /\ distance_base <= 7 -> 9 + (distance_base - 6) * 4
       [] 8 <= distance_base /\ distance_base <= 9 -> 17 + (distance_base - 8) * 8
       [] 10 <= distance_base /\ distance_base <= 11 -> 33 + (distance_base - 10) * 16
       [] 12 <= distance_base /\ distance_base <= 13 -> 65 + (distance_base - 12) * 32
       [] 14 <= distance_base /\ distance_base <= 15 -> 129 + (distance_base - 14) * 64
       [] 16 <= distance_base /\ distance_base <= 17 -> 257 + (distance_base - 16) * 128
       [] 18 <= distance_base /\ distance_base <= 19 -> 513 + (distance_base - 18) * 256
       [] 20 <= distance_base /\ distance_base <= 21 -> 1025 + (distance_base - 20) * 512
       [] 22 <= distance_base /\ distance_base <= 23 -> 2049 + (distance_base - 22) * 1024
       [] 24 <= distance_base /\ distance_base <= 25 -> 4097 + (distance_base - 24) * 2048
       [] 26 <= distance_base /\ distance_base <= 27 -> 8193 + (distance_base - 26) * 4096
       [] 28 <= distance_base /\ distance_base <= 29 -> 16385 + (distance_base - 28) * 8192)
     + distance_extra_bits) % 65536

\* The token loop of a compressed block (the same in the fixed and the
\* dynamic branch), with the two tables given.
RECURSIVE token_loop(_, _, _, _, _, _)
token_loop(litlen_coding, distance_coding, inp, r, p, w) ==
    TryIn(read_symbol(litlen_coding, inp, r, p), w, LAMBDA token :
    IF token.value = 256
    THEN [ok |-> TRUE, err |-> "", reader |-> token.reader, pos |-> token.pos,
          writer |-> w]
    ELSE IF token.value < 256
    THEN TryIn(write_u8(w, token.value, FALSE), w, LAMBDA lit :
             token_loop(litlen_coding, distance_coding, inp, token.reader, token.pos,
                        lit.writer))
    ELSE
    TryIn(read_bits(inp, token.reader, token.pos, LitLenExtraBits(token.value)), w,
        LAMBDA length_extra_bits :
    TryIn(read_symbol(distance_coding, inp, length_extra_bits.reader,
                      length_extra_bits.pos), w,
        LAMBDA distance_token :
    TryIn(read_bits(inp, distance_token.reader, distance_token.pos,
                    DistanceExtraBits(distance_token.value)), w,
        LAMBDA distance_extra_bits :
    Let(write_previous(w, DistanceOf(distance_token.value, distance_extra_bits.seq.bits),
                       LengthOf(token.value, length_extra_bits.seq.bits)),
        LAMBDA copy :
        IF copy.outcome = "ok"
        THEN token_loop(litlen_coding, distance_coding, inp,
                        distance_extra_bits.reader, distance_extra_bits.pos, copy.writer)
        ELSE [ok |-> FALSE, err |-> IF copy.outcome = "panic" THEN ErrPanic ELSE copy.msg,
              writer |-> w])))))

\* The `for _i in 0..len` loop of a stored block from iteration i on; rdr
\* is the bit reader after borrow_reader_from_boundary.
RECURSIVE stored_loop(_, _, _, _, _, _)
stored_loop(inp, rdr, p, w, i, len) ==
    IF i >= len
    THEN [ok |-> TRUE, err |-> "", reader |-> rdr, pos |-> p, writer |-> w]
    ELSE TryIn(read_u8(inp, p), w, LAMBDA byte :
         TryIn(write_u8(w, byte.value, FALSE), w, LAMBDA o :
             stored_loop(inp, rdr, byte.pos, o.writer, i + 1, len)))

\* The stored branch without the comparison of LEN and NLEN.
stored_NoNlenCheck(inp, r, p, w) ==
    Let(borrow_reader_from_boundary(r), LAMBDA rdr :
    Try(read_u16(inp, p), LAMBDA len :
    Try(read_u16(inp, len.pos), LAMBDA not_len :
        stored_loop(inp, rdr, not_len.pos, w, 0, len.value))))

\* The CompressionType::Uncompressed branch of read_block; `!not_len` is the
\* complement of a u16.
stored(inp, r, p, w) ==
    Let(borrow_reader_from_boundary(r), LAMBDA rdr :
    Try(read_u16(inp, p), LAMBDA len :
    Try(read_u16(inp, len.pos), LAMBDA not_len :
        IF len.value # 65535 - not_len.value THEN Err(ErrNlen)
        ELSE stored_loop(inp, rdr, not_len.pos, w, 0, len.value))))

\* The fixed code-length vectors of the FixedTree branch.
FixedLitlenLengths == Repeat(8, 144) \o Repeat(9, 112) \o Repeat(7, 24) \o Repeat(8, 8)

FixedDistanceLengths == Repeat(5, 32)

FixedLitlenCoding == from_lengths("litlen", FixedLitlenLengths)

FixedDistanceCoding == from_lengths("distance", FixedDistanceLengths)

\* The CompressionType::FixedTree branch of read_block.
fixed(inp, r, p, w) ==
    Try(FixedLitlenCoding, LAMBDA litlen_coding :
    Try(FixedDistanceCoding, LAMBDA distance_coding :
        token_loop(litlen_coding.map, distance_coding.map, inp, r, p, w)))

\* The CompressionType::DynamicTree branch of read_block.
dynamic(inp, r, p, w) ==
    Try(decode_litlen_distance_trees(inp, r, p), LAMBDA trees :
        token_loop(trees.litlen, trees.distance, inp, trees.reader, trees.pos, w))

BlockTypeName(t) ==
    CASE t = 0 -> "stored" [] t = 1 -> "fixed" [] t = 2 -> "dynamic" [] t = 3 -> "reserved"

\* The `match compression_type` of read_block.
block_body(t, inp, r, p, w) ==
    CASE t = 0 -> stored(inp, r, p, w)
      [] t = 1 -> fixed(inp, r, p, w)
      [] t = 2 -> dynamic(inp, r, p, w)
      [] t = 3 -> Err(ErrReserved)

\* DeflateReader::new
DeflateReaderNew ==
    [bit_reader |-> BitReaderNew, tracker |-> TrackingWriterNew(VecSink), is_avail |-> TRUE]

\* read_block after the BFINAL bit: BTYPE, the block, and the Vec taken out
\* of the tracker.
read_block_body(inp, r, p, w) ==
    Try(read_bits(inp, r, p, 2), LAMBDA compression_type :
    Try(block_body(compression_type.seq.bits, inp,
                   compression_type.reader, compression_type.pos, w), LAMBDA body :
        [ok |-> TRUE, err |-> "", reader |-> body.reader, pos |-> body.pos,
         writer |-> [body.writer EXCEPT !.inner.data = <<>>],
         block |-> body.writer.inner.data,
         btype |-> BlockTypeName(compression_type.seq.bits)]))

\* The tracker after a part of read_block that started with w returned res:
\* where a loop failed it is the one the loop left, with the bytes the block
\* had written so far in its Vec.
TrackerAfter(res, w) == IF "writer" \in DOMAIN res THEN res.writer ELSE w

\* DeflateReader::read_block.  is_avail is assigned as soon as the BFINAL bit
\* was read, also when the block then fails; a block that fails leaves what
\* it wrote in the tracker.
read_block(inp, r, p, w, avail) ==
    Let(read_bits(inp, r, p, 1), LAMBDA bfinal :
        IF ~bfinal.ok
        THEN [ok |-> FALSE, err |-> bfinal.err, is_avail |-> avail, writer |-> w]
        ELSE Let(read_block_body(inp, bfinal.reader, bfinal.pos, w), LAMBDA res :
                 IF ~res.ok
                 THEN [ok |-> FALSE, err |-> res.err, is_avail |-> (bfinal.seq.bits = 0),
                       writer |-> TrackerAfter(res, w)]
                 ELSE [ok |-> TRUE, err |-> "", is_avail |-> (bfinal.seq.bits = 0),
                       reader |-> res.reader, pos |-> res.pos, writer |-> res.writer,
                       block |-> res.block, btype |-> res.btype]))

\* a next_block that does not look at is_avail
next_block_Always(inp, r, p, w, avail) ==
    [some |-> TRUE, res |-> read_block(inp, r, p, w, avail)]

\* DeflateReader::next_block: Some(read_block()) while is_avail, else None.
next_block(inp, r, p, w, avail) ==
    IF avail
    THEN [some |-> TRUE, res |-> read_block(inp, r, p, w, avail)]
    ELSE [some |-> FALSE, res |-> [ok |-> TRUE, err |-> "", is_avail |-> avail]]

----------------------------------------------------------------------------
(* The member header and trailer (gzip.rs) *)

ID1 == 31

ID2 == 139

CM_DEFLATE == 8

FHCRC_OFFSET == 1

FEXTRA_OFFSET == 2

FNAME_OFFSET == 3

FCOMMENT_OFFSET == 4

ErrIds == "wrong id values"

ErrExtra == "Not enough bytes for extra fields"

ErrUtf8 == "invalid utf-8 sequence"

ErrHcrc == "header crc16 check failed"

ErrMethod == "unsupported compression method"

ErrLength == "length check failed"

ErrCrc == "crc32 check failed"

\* MemberFlags::bit
bit(flags, n) == (flags \div Pow2(n)) % 2 # 0

IsCont(s, i) == i <= Len(s) /\ 128 <= s[i] /\ s[i] <= 191

\* String::from_utf8 succeeds on the bytes s from index i on.
RECURSIVE Utf8Ok(_, _)
Utf8Ok(s, i) ==
    IF i > Len(s) THEN TRUE
    ELSE LET b == s[i]
         IN  IF b < 128 THEN Utf8Ok(s, i + 1)
             ELSE IF 194 <= b /\ b <= 223
             THEN IsCont(s, i + 1) /\ Utf8Ok(s, i + 2)
             ELSE IF 224 <= b /\ b <= 239
             THEN /\ IsCont(s, i + 1) /\ IsCont(s, i + 2)
                  /\ (b = 224 => s[i + 1] >= 160)
                  /\ (b = 237 => s[i + 1] <= 159)
                  /\ Utf8Ok(s, i + 3)
             ELSE IF 240 <= b /\ b <= 244
             THEN /\ IsCont(s, i + 1) /\ IsCont(s, i + 2) /\ IsCont(s, i + 3)
                  /\ (b = 240 => s[i + 1] >= 144)
                  /\ (b = 244 => s[i + 1] <= 143)
                  /\ Utf8Ok(s, i + 4)
             ELSE FALSE

\* A header field read: the position after it and the bytes it adds to
\* what MemberHeader::crc16 digests.
HdrStep(p, bytes) == [ok |-> TRUE, err |-> "", pos |-> p, bytes |-> bytes]

\* The FEXTRA part of into_deflate_reader: XLEN, then one `read` into a
\* buffer of XLEN bytes, which returns what the source has buffered.
read_extra(inp, p, chk) ==
    Try(read_u16(inp, p), LAMBDA len :
    Let(Min(len.value, Buffered(inp, len.pos, chk)), LAMBDA read_len :
        IF read_len # len.value THEN Err(ErrExtra)
        ELSE HdrStep(len.pos + len.value,
                     len.bytes \o SubSeq(inp, len.pos + 1, len.pos + len.value))))

\* The FNAME / FCOMMENT loops: bytes up to a NUL, then String::from_utf8.
RECURSIVE read_cstring(_, _, _)
read_cstring(inp, p, acc) ==
    Try(read_u8(inp, p), LAMBDA byte :
        IF byte.value # 0 THEN read_cstring(inp, byte.pos, Append(acc, byte.value))
        ELSE IF ~Utf8Ok(acc, 1) THEN Err(ErrUtf8)
        ELSE HdrStep(byte.pos, Append(acc, 0)))

\* MemberHeader::crc16 of a header whose fields are the bytes `hdr`: the low
\* 16 bits of their CRC-32.
crc16(hdr) == Let(Crc32(hdr), LAMBDA crc : U16LE(crc[1], crc[2]))

\* The end of into_deflate_reader: the FHCRC field when the flag is set.
read_hcrc(inp, p, flags, hdr) ==
    IF ~bit(flags, FHCRC_OFFSET) THEN HdrStep(p, <<>>)
    ELSE Try(read_u16(inp, p), LAMBDA crc :
             IF crc16(hdr) # crc.value THEN Err(ErrHcrc) ELSE HdrStep(crc.pos, <<>>))

\* MemberReader::into_deflate_reader: the position after the header and the
\* compression method, or the error.
into_deflate_reader(inp, p, chk) ==
    Try(read_u8(inp, p), LAMBDA id1 :
    Try(read_u8(inp, id1.pos), LAMBDA id2 :
    IF ~(id1.value = ID1 /\ id2.value = ID2) THEN Err(ErrIds)
    ELSE
    Try(read_u8(inp, id2.pos), LAMBDA cm :
    Try(read_u8(inp, cm.pos), LAMBDA flags :
    Try(read_exact(inp, flags.pos, 4), LAMBDA mtime :
    Try(read_u8(inp, mtime.pos), LAMBDA xfl :
    Try(read_u8(inp, xfl.pos), LAMBDA os :
    Try(IF bit(flags.value, FEXTRA_OFFSET) THEN read_extra(inp, os.pos, chk)
        ELSE HdrStep(os.pos, <<>>), LAMBDA extra :
    Try(IF bit(flags.value, FNAME_OFFSET) THEN read_cstring(inp, extra.pos, <<>>)
        ELSE HdrStep(extra.pos, <<>>), LAMBDA name :
    Try(IF bit(flags.value, FCOMMENT_OFFSET) THEN read_cstring(inp, name.pos, <<>>)
        ELSE HdrStep(name.pos, <<>>), LAMBDA comment :
    Try(read_hcrc(inp, comment.pos, flags.value,
                  <<ID1, ID2, cm.value, flags.value>> \o mtime.bytes
                  \o <<xfl.value, os.value>> \o extra.bytes \o name.bytes
                  \o comment.bytes), LAMBDA hcrc :
        [ok |-> TRUE, err |-> "", pos |-> hcrc.pos, cm |-> cm.value])))))))))))

\* MemberReader::read_footer: data_crc32 and data_size as u32 digits.
read_footer(inp, p) ==
    Try(read_exact(inp, p, 4), LAMBDA crc :
    Try(read_exact(inp, crc.pos, 4), LAMBDA isize :
        [ok |-> TRUE, err |-> "", pos |-> isize.pos, data_crc32 |-> crc.bytes,
         data_size |-> isize.bytes]))

----------------------------------------------------------------------------
(* decompress (lib.rs) *)

\* `writer.byte_count() == footer.data_size as usize`, both as usize digits.
LengthCheck(count, size) == count = U32AsUsize(size)

\* check_footer without the comparison of the CRC.
check_footer_NoCrc(w, footer) ==
    IF ~LengthCheck(Digits(byte_count(w), 8), footer.data_size) THEN ErrLength
    ELSE ""

\* The two `ensure!` of decompress after read_footer: "" when both pass.
check_footer(w, footer) ==
    IF ~LengthCheck(Digits(byte_count(w), 8), footer.data_size) THEN ErrLength
    ELSE IF crc32(w) # footer.data_crc32 THEN ErrCrc
    ELSE ""

----------------------------------------------------------------------------
(* SpecTW: calls on one TrackingWriter over a slice sink *)

MaxCalls == 2

MaxLen == 2

SmallCap == 3

Slack == 2

\* A bulk buffer one byte longer than the window.
Big == [i \in 1..(HISTORY_SIZE + 1) |-> i % 256] \o <<>>

Bufs == {<<1>>, <<2, 3>>, Big}

Dists == {0, 1, 2, HISTORY_SIZE, HISTORY_SIZE + 1}

Lens == 0..MaxLen

SinkCaps == {SmallCap, HISTORY_SIZE + 1 + Slack}

NoRet == [op |-> "new", outcome |-> "ok", msg |-> "", size |-> 0,
          dist |-> 0, len |-> 0, n0 |-> 0]

NoMember == [n |-> 0, blocks |-> 0, btype |-> "none"]

NoCase == [ends |-> <<>>, payloads |-> <<>>, crcs |-> <<>>, valid |-> TRUE,
           fixed |-> FALSE]

IdleGz == /\ input = <<>> /\ chunk = 1 /\ pos = 0
          /\ bit_reader = [buffer |-> 0, len |-> 0]
          /\ tracker = TrackingWriterNew(VecSink)
          /\ is_avail = TRUE /\ output = <<>> /\ pc = "idle"
          /\ result = "running" /\ member = NoMember /\ expect = NoCase

IdleLen == byte_n = 0 /\ data_size = 0 /\ len_ok = "none"

IdleTW == writer = TrackingWriterNew(SliceSink(0)) /\ ret = NoRet /\ calls = 0

NoCall == [op |-> "none", k |-> 0]

IdleFn == coding = Err("none") /\ call = NoCall

InitTW ==
    /\ \E cap \in SinkCaps : writer = TrackingWriterNew(SliceSink(cap))
    /\ ret = NoRet
    /\ calls = 0
    /\ IdleGz
    /\ IdleLen
    /\ IdleFn

Write(buf, reject) ==
    /\ calls < MaxCalls
    /\ ret.outcome # "panic"
    /\ LET r == write(writer, buf, reject)
       IN  /\ writer' = r.writer
           /\ ret' = [op |-> "write", outcome |-> IF r.ok THEN "ok" ELSE "err",
                      msg |-> IF r.ok THEN "" ELSE ErrSink, size |-> r.size,
                      dist |-> 0, len |-> Len(buf), n0 |-> writer.byte_n]
    /\ calls' = calls + 1
    /\ UNCHANGED <<varsGz, varsLen, varsFn>>

WritePrevious(dist, len) ==
    /\ calls < MaxCalls
    /\ ret.outcome # "panic"
    /\ LET r == write_previous(writer, dist, len)
       IN  /\ writer' = r.writer
           /\ ret' = [op |-> "write_previous", outcome |-> r.outcome,
                      msg |-> r.msg, size |-> r.writer.byte_n - writer.byte_n,
                      dist |-> dist, len |-> len, n0 |-> writer.byte_n]
    /\ calls' = calls + 1
    /\ UNCHANGED <<varsGz, varsLen, varsFn>>

NextTW ==
    \/ \E buf \in Bufs, reject \in BOOLEAN : Write(buf, reject)
    \/ \E dist \in Dists, len \in Lens : WritePrevious(dist, len)

SpecTW == InitTW /\ [][NextTW]_vars

----------------------------------------------------------------------------
(* Spec: decompress on one input *)

MaxMembers == 2

SmallChunk == 13

BigChunk == 8192

\* Member headers: plain; FNAME "a"; FHCRC; FEXTRA "xy" + FNAME + FCOMMENT +
\* FHCRC; and three that are not valid (ID2, CM, header CRC).
Hdr == <<31, 139, 8, 0, 0, 0, 0, 0, 0, 3>>

HdrName == <<31, 139, 8, 8, 0, 0, 0, 0, 0, 3, 97, 0>>

HdrCrc == <<31, 139, 8, 2, 0, 0, 0, 0, 0, 3, 167, 119>>

HdrAll == <<31, 139, 8, 30, 0, 0, 0, 0, 0, 3, 2, 0, 120, 121, 97, 0, 98, 0, 83, 95>>

HdrBadId == <<31, 140, 8, 0, 0, 0, 0, 0, 0, 3>>

HdrBadCm == <<31, 139, 7, 0, 0, 0, 0, 0, 0, 3>>

HdrBadCrc == <<31, 139, 8, 2, 0, 0, 0, 0, 0, 3, 167, 118>>

Headers ==
    {[bytes |-> h, valid |-> TRUE] : h \in {Hdr, HdrName, HdrCrc, HdrAll}}
    \cup {[bytes |-> h, valid |-> FALSE] : h \in {HdrBadId, HdrBadCm, HdrBadCrc}}

Stream(deflate, payload, crc, valid, isFixed) ==
    [deflate |-> deflate, payload |-> payload, crc |-> crc, valid |-> valid,
     fixed |-> isFixed]

CrcEmpty == <<0, 0, 0, 0>>

CrcAbc == <<194, 65, 36, 53>>

CrcAbbbb == <<119, 128, 123, 76>>

CrcAbbbbAbc == <<164, 15, 206, 152>>

Abc == <<97, 98, 99>>

Abbbb == <<97, 98, 98, 98, 98>>

\* DEFLATE streams.  Stored: "abc"; "abc" with the padding bits set; empty;
\* "ab" then "c"; empty then "abc"; two with NLEN wrong.  Fixed: only
\* end-of-block; literals "abc".  Dynamic: a, b, a copy of length 3 from
\* distance 1, ending in the middle of a byte; the same followed by a stored
\* block.  One of the reserved type.
StoredAbc == Stream(<<1, 3, 0, 252, 255, 97, 98, 99>>, Abc, CrcAbc, TRUE, FALSE)

StoredPad == Stream(<<249, 3, 0, 252, 255, 97, 98, 99>>, Abc, CrcAbc, TRUE, FALSE)

StoredEmpty == Stream(<<1, 0, 0, 255, 255>>, <<>>, CrcEmpty, TRUE, FALSE)

StoredTwo ==
    Stream(<<0, 2, 0, 253, 255, 97, 98, 1, 1, 0, 254, 255, 99>>, Abc, CrcAbc, TRUE, FALSE)

StoredEmptyThenAbc ==
    Stream(<<0, 0, 0, 255, 255, 1, 3, 0, 252, 255, 97, 98, 99>>, Abc, CrcAbc, TRUE, FALSE)

StoredBadNlen == Stream(<<1, 3, 0, 252, 254, 97, 98, 99>>, Abc, CrcAbc, FALSE, FALSE)

StoredThenBadNlen ==
    Stream(<<0, 2, 0, 253, 255, 97, 98, 1, 1, 0, 254, 254, 99>>, Abc, CrcAbc, FALSE, FALSE)

FixedEmpty == Stream(<<3, 0>>, <<>>, CrcEmpty, TRUE, TRUE)

FixedAbc == Stream(<<75, 76, 74, 6, 0>>, Abc, CrcAbc, TRUE, TRUE)

DynFinal ==
    Stream(<<13, 192, 129, 0, 0, 0, 0, 128, 32, 214, 247, 135, 248, 112, 1>>,
           Abbbb, CrcAbbbb, TRUE, FALSE)

DynThenStored ==
    Stream(<<12, 192, 129, 0, 0, 0, 0, 128, 32, 214, 247, 135, 248, 112, 229,
             3, 0, 252, 255, 97, 98, 99>>,
           Abbbb \o Abc, CrcAbbbbAbc, TRUE, FALSE)

ReservedType == Stream(<<7>>, <<>>, CrcEmpty, FALSE, FALSE)

CrcA == <<67, 190, 183, 232>>

\* Dynamic blocks for "abbbb" with HLIT = 1 (258 literal/length lengths) and
\* HDIST = 7 (eight distance lengths 3).  The lengths of symbols 256 and 257
\* are 3 as well and are written: as 3, copy-previous x6, copy-previous x3,
\* the first copy running from symbol 257 into the distance lengths; as 3, 3,
\* copy-previous x6, 3, 3, the copy being the first token of the distance
\* lengths; and as ten times 3 without a repeat.
DynSpanCopy ==
    Stream(<<13, 199, 5, 1, 0, 0, 0, 194, 176, 172, 123, 255, 16, 184, 232, 24>>,
           Abbbb, CrcAbbbb, TRUE, FALSE)

DynSpanFirst ==
    Stream(<<13, 199, 5, 1, 0, 0, 0, 194, 176, 172, 123, 255, 16, 224, 160, 99>>,
           Abbbb, CrcAbbbb, TRUE, FALSE)

DynSpanFlat ==
    Stream(<<13, 199, 5, 1, 0, 0, 0, 194, 176, 172, 123, 255, 16, 0, 0, 160, 99>>,
           Abbbb, CrcAbbbb, TRUE, FALSE)

\* A dynamic block for "a" with HLIT = 1, HDIST = 1: symbol 257 and the two
\* distance symbols have length 0, written as one zero run of 3.
DynZeroSpan ==
    Stream(<<13, 193, 33, 9, 0, 0, 0, 0, 160, 173, 254, 63, 97, 16>>,
           <<97>>, CrcA, TRUE, FALSE)

CrcAbcAbc == <<76, 153, 110, 114>>

\* A stored block "abc" that is not final, then a dynamic block of one copy
\* of length 3 from distance 3; and that dynamic block alone, which no member
\* can start with (its trailer is the one of "abc").
StoredThenBackRef ==
    Stream(<<0, 3, 0, 252, 255, 97, 98, 99,
             13, 194, 129, 8, 0, 0, 0, 0, 32, 127, 235, 175, 3>>,
           Abc \o Abc, CrcAbcAbc, TRUE, FALSE)

BackRefOnly ==
    Stream(<<13, 194, 129, 8, 0, 0, 0, 0, 32, 127, 235, 175, 3>>,
           Abc, CrcAbc, FALSE, FALSE)

\* Blocks that fail after they wrote bytes.  A stored block "ab", then a
\* final stored block of LEN = 20 that holds "c" and runs over the trailer
\* into the end of the input; and a dynamic block of the literal "a" and a
\* copy of length 3 from distance 3.
StoredThenCut ==
    Stream(<<0, 2, 0, 253, 255, 97, 98, 1, 20, 0, 235, 255, 99>>,
           Abc, CrcAbc, FALSE, FALSE)

DynLitThenBackRef ==
    Stream(<<13, 194, 1, 9, 0, 0, 0, 128, 160, 173, 254, 63, 81, 160, 5>>,
           <<97>>, CrcA, FALSE, FALSE)

Streams ==
    {StoredAbc, StoredPad, StoredEmpty, StoredTwo, StoredEmptyThenAbc, StoredBadNlen,
     StoredThenBadNlen, FixedEmpty, FixedAbc, DynFinal, DynThenStored, ReservedType,
     DynSpanCopy, DynSpanFirst, DynSpanFlat, DynZeroSpan, StoredThenBackRef,
     BackRefOnly, StoredThenCut, DynLitThenBackRef}

TrailerKinds == {"good", "badcrc", "badsize", "short"}

\* The trailer of a member with the given payload: right, with one CRC
\* byte flipped, with ISIZE one too large, or cut after six bytes.
Trailer(s, kind) ==
    LET isize == Digits(Len(s.payload), 4)
    IN  CASE kind = "good"    -> s.crc \o isize
          [] kind = "badcrc"  -> <<255 - s.crc[1]>> \o SubSeq(s.crc, 2, 4) \o isize
          [] kind = "badsize" -> s.crc \o Digits(Len(s.payload) + 1, 4)
          [] kind = "short"   -> s.crc \o SubSeq(isize, 1, 2)

\* One member: its bytes, its payload and the CRC-32 of it, whether it is a
\* valid member, the offset in it where the DEFLATE stream ends.
MemberOf(h, s, kind) ==
    [bytes   |-> h.bytes \o s.deflate \o Trailer(s, kind),
     payload |-> s.payload,
     crc     |-> s.crc,
     valid   |-> IF h.valid THEN s.valid /\ kind = "good" ELSE FALSE,
     dend    |-> Len(h.bytes) + Len(s.deflate),
     fixed   |-> IF h.valid THEN s.fixed /\ kind = "good" ELSE FALSE]

Members == {MemberOf(h, s, kind) : h \in Headers, s \in Streams, kind \in TrailerKinds}

PlainHdr == [bytes |-> Hdr, valid |-> TRUE]

\* The members that inputs of several members are made of.
ChainMembers ==
    {MemberOf(PlainHdr, StoredAbc, "good"), MemberOf(PlainHdr, DynFinal, "good"),
     MemberOf(PlainHdr, StoredEmpty, "good"), MemberOf(PlainHdr, FixedAbc, "good"),
     MemberOf(PlainHdr, StoredAbc, "badcrc"),
     MemberOf([bytes |-> HdrName, valid |-> TRUE], DynThenStored, "good")}

RECURSIVE Flatten(_)
Flatten(ss) == IF Len(ss) = 0 THEN <<>> ELSE ss[1] \o Flatten(Tail(ss))

\* The input made of the members ms in order, with what is known of it.
RECURSIVE CaseOf(_, _)
CaseOf(ms, start) ==
    IF Len(ms) = 0
    THEN [bytes |-> <<>>, ends |-> <<>>, payloads |-> <<>>, crcs |-> <<>>,
          valid |-> TRUE]
    ELSE LET tl == CaseOf(Tail(ms), start + Len(ms[1].bytes))
         IN  [bytes    |-> ms[1].bytes \o tl.bytes,
              ends     |-> <<start + ms[1].dend>> \o tl.ends,
              payloads |-> <<ms[1].payload>> \o tl.payloads,
              crcs     |-> <<ms[1].crc>> \o tl.crcs,
              valid    |-> ms[1].valid /\ tl.valid]

Chains == UNION {[1..k -> ChainMembers] : k \in 0..MaxMembers}

\* Inputs whose last member starts with a copy from distance 3, after
\* members that wrote three bytes or more.
BackRefChains ==
    {<<m, MemberOf(PlainHdr, BackRefOnly, "good")>> :
        m \in {MemberOf(PlainHdr, StoredAbc, "good"),
               MemberOf(PlainHdr, StoredThenBackRef, "good")}}

\* Inputs whose last member fails inside a block that wrote bytes, after a
\* member of one block or of two.
CutChains ==
    {<<m, MemberOf(PlainHdr, s, "good")>> :
        m \in {MemberOf(PlainHdr, StoredAbc, "good"),
               MemberOf([bytes |-> HdrName, valid |-> TRUE], DynThenStored, "good")},
        s \in {StoredThenCut, DynLitThenBackRef}}

Cases ==
    {[c |-> CaseOf(<<m>>, 0), fixed |-> m.fixed] : m \in Members}
    \cup {[c |-> CaseOf(ms, 0), fixed |-> FALSE] :
             ms \in Chains \cup BackRefChains \cup CutChains}

Init ==
    /\ \E x \in Cases :
           /\ input = x.c.bytes
           /\ expect = [ends |-> x.c.ends, payloads |-> x.c.payloads,
                        crcs |-> x.c.crcs, valid |-> x.c.valid, fixed |-> x.fixed]
    /\ chunk \in {SmallChunk, BigChunk}
    /\ pos = 0
    /\ bit_reader = DeflateReaderNew.bit_reader
    /\ tracker = DeflateReaderNew.tracker
    /\ is_avail = DeflateReaderNew.is_avail
    /\ output = <<>>
    /\ pc = "peek"
    /\ result = "running"
    /\ member = NoMember
    /\ IdleTW
    /\ IdleLen
    /\ IdleFn

\* A decompress that keeps one TrackingWriter for all members.
MemberStep_KeepTracker(h) ==
    LET err == IF ~h.ok THEN h.err
               ELSE IF h.cm # CM_DEFLATE THEN ErrMethod ELSE ""
    IN  /\ result' = IF err # "" THEN err ELSE "running"
        /\ pc' = IF err # "" THEN "done" ELSE "blocks"
        /\ pos' = IF err # "" THEN pos ELSE h.pos
        /\ member' = [n |-> member.n + 1, blocks |-> 0, btype |-> "none"]
        /\ bit_reader' = DeflateReaderNew.bit_reader
        /\ tracker' = tracker
        /\ is_avail' = DeflateReaderNew.is_avail

\* The rest of a loop turn after into_deflate_reader returned h: the check
\* of the compression method.  (When decompress returns an error, the readers
\* are dropped; their variables keep the values they had.)
MemberStep(h) ==
    LET err == IF ~h.ok THEN h.err
               ELSE IF h.cm # CM_DEFLATE THEN ErrMethod ELSE ""
    IN  /\ result' = IF err # "" THEN err ELSE "running"
        /\ pc' = IF err # "" THEN "done" ELSE "blocks"
        /\ pos' = IF err # "" THEN pos ELSE h.pos
        /\ member' = [n |-> member.n + 1, blocks |-> 0, btype |-> "none"]
        /\ bit_reader' = DeflateReaderNew.bit_reader
        /\ tracker' = DeflateReaderNew.tracker
        /\ is_avail' = DeflateReaderNew.is_avail

\* The loop test of decompress and, when the source is not empty, the
\* header of the next member and the check of its compression method.
BeginMember ==
    /\ pc = "peek"
    /\ result = "running"
    /\ IF pos = Len(input)
       THEN /\ result' = "ok"
            /\ pc' = "done"
            /\ UNCHANGED <<pos, member, bit_reader, tracker, is_avail>>
       ELSE MemberStep(into_deflate_reader(input, pos, chunk))
    /\ UNCHANGED <<input, chunk, output, expect, varsTW, varsLen, varsFn>>

\* A decompress whose sink gets the bytes of a block as they are written.
BlockStep_Unbuffered(rb) ==
    /\ is_avail' = rb.is_avail
    /\ bit_reader' = IF rb.ok THEN rb.reader ELSE bit_reader
    /\ pos' = IF rb.ok THEN rb.pos ELSE pos
    /\ tracker' = rb.writer
    /\ output' = IF rb.ok THEN output \o rb.block ELSE output \o rb.writer.inner.data
    /\ result' = IF rb.ok THEN "running" ELSE rb.err
    /\ pc' = IF rb.ok THEN "blocks" ELSE "done"
    /\ member' = [member EXCEPT !.blocks = @ + 1,
                                !.btype = IF rb.ok THEN rb.btype ELSE "failed"]

\* What decompress does with the result rb of read_block: write_all of the
\* block to the output, or return the error.  (The error drops the
\* DeflateReader; tracker keeps what it held at that moment.)
BlockStep(rb) ==
    /\ is_avail' = rb.is_avail
    /\ bit_reader' = IF rb.ok THEN rb.reader ELSE bit_reader
    /\ pos' = IF rb.ok THEN rb.pos ELSE pos
    /\ tracker' = rb.writer
    /\ output' = IF rb.ok THEN output \o rb.block ELSE output
    /\ result' = IF rb.ok THEN "running" ELSE rb.err
    /\ pc' = IF rb.ok THEN "blocks" ELSE "done"
    /\ member' = [member EXCEPT !.blocks = @ + 1,
                                !.btype = IF rb.ok THEN rb.btype ELSE "failed"]

\* One turn of `while let Some(block) = next_block()`: read_block and
\* write_all of its bytes to the output.
NextBlock ==
    /\ pc = "blocks"
    /\ result = "running"
    /\ is_avail
    /\ BlockStep(read_block(input, bit_reader, pos, tracker, is_avail))
    /\ UNCHANGED <<input, chunk, expect, varsTW, varsLen, varsFn>>

\* What decompress does with the result of read_footer: the two checks.
FooterStep(footer) ==
    LET verdict == IF ~footer.ok THEN footer.err ELSE check_footer(tracker, footer)
    IN  /\ pos' = IF footer.ok THEN footer.pos ELSE pos
        /\ result' = IF verdict = "" THEN "running" ELSE verdict
        /\ pc' = IF verdict = "" THEN "peek" ELSE "done"

\* next_block returned None: into_inners, read_footer and the two checks.
EndMember ==
    /\ pc = "blocks"
    /\ result = "running"
    /\ ~is_avail
    /\ FooterStep(read_footer(input, pos))
    /\ UNCHANGED <<input, chunk, bit_reader, tracker, is_avail, output, member, expect,
                   varsTW, varsLen, varsFn>>

Next == BeginMember \/ NextBlock \/ EndMember

Spec == Init /\ [][Next]_vars

----------------------------------------------------------------------------
(* SpecLen: the length check of decompress on byte counts up to and beyond  *)
(* 2^32, which no run of Spec can reach.                                    *)

MaxGrow == 5

\* d + k for a usize d given by its digits and a small k.
RECURSIVE AddUsize(_, _)
AddUsize(d, k) ==
    IF Len(d) = 0 THEN <<>>
    ELSE <<(d[1] + k) % 256>> \o AddUsize(Tail(d), (d[1] + k) \div 256)

\* Byte counts: from 0, from just below 2^32 and from just below 2^33.
CountBases ==
    {<<0, 0, 0, 0, 0, 0, 0, 0>>, <<254, 255, 255, 255, 0, 0, 0, 0>>,
     <<254, 255, 255, 255, 1, 0, 0, 0>>}

Counts == {AddUsize(b, k) : b \in CountBases, k \in 0..MaxGrow}

\* ISIZE fields: small ones and the two largest.
Sizes == {Digits(k, 4) : k \in 0..MaxGrow} \cup {<<254, 255, 255, 255>>, <<255, 255, 255, 255>>}

InitLen ==
    /\ byte_n \in Counts
    /\ data_size = <<0, 0, 0, 0>>
    /\ len_ok = "none"
    /\ IdleTW
    /\ IdleGz
    /\ IdleFn

\* The first `ensure!` after read_footer, for a trailer whose ISIZE is isize.
CheckLength(isize) ==
    /\ len_ok = "none"
    /\ data_size' = isize
    /\ len_ok' = IF LengthCheck(byte_n, isize) THEN "pass" ELSE ErrLength
    /\ UNCHANGED <<byte_n, varsTW, varsGz, varsFn>>

NextLen == \E isize \in Sizes : CheckLength(isize)

SpecLen == InitLen /\ [][NextLen]_vars

----------------------------------------------------------------------------
(* SpecBits: calls on one BitReader over a byte string.  `call` keeps the   *)
(* last call, what it returned, and the number `at` of stream bits that     *)
(* lay before the call (`next`: before the next call), counted from the     *)
(* calls made: a read of len bits moves it by len, a borrow moves it to the *)
(* next byte boundary and past the bytes read through the borrowed source.  *)

MaxReads == 3

MaxBorrow == 2

\* The data of tests::read_bits, and strings that end inside a read.
BitInputs == {<<>>, <<99, 219, 175>>, <<165, 60, 129, 126>>}

BitCounts == 0..16

Quiet ==
    /\ tracker = TrackingWriterNew(VecSink)
    /\ is_avail = TRUE /\ output = <<>> /\ pc = "idle"
    /\ result = "running" /\ member = NoMember /\ expect = NoCase
    /\ IdleTW
    /\ IdleLen

InitBits ==
    /\ input \in BitInputs
    /\ chunk = 1
    /\ pos = 0
    /\ bit_reader = BitReaderNew
    /\ coding = Err("none")
    /\ call = [op |-> "new", k |-> 0, ok |-> TRUE, err |-> "", len |-> 0,
               seq |-> BitSequenceNew(0, 0), bytes |-> <<>>, at |-> 0, next |-> 0,
               before |-> [reader |-> BitReaderNew, pos |-> 0]]
    /\ Quiet

\* reader.read_bits(len).  An error ends the run: the caller hands it on and
\* the reader is not used again.
ReadBits(len) ==
    /\ call.k < MaxReads
    /\ call.ok
    /\ LET r == read_bits(input, bit_reader, pos, len)
       IN  /\ bit_reader' = IF r.ok THEN r.reader ELSE bit_reader
           /\ pos' = IF r.ok THEN r.pos ELSE pos
           /\ call' = [op |-> "read_bits", k |-> call.k + 1, ok |-> r.ok,
                       err |-> r.err, len |-> len,
                       seq |-> IF r.ok THEN r.seq ELSE BitSequenceNew(0, 0),
                       bytes |-> <<>>, at |-> call.next,
                       next |-> IF r.ok THEN call.next + len ELSE call.next,
                       before |-> [reader |-> bit_reader, pos |-> pos]]
    /\ UNCHANGED <<input, chunk, tracker, is_avail, output, pc, result, member, expect,
                   coding, varsTW, varsLen>>

\* reader.borrow_reader_from_boundary() and n bytes read through the source
\* it returns (read_u8 / read_u16 of the caller).
BorrowRead(n) ==
    /\ call.k < MaxReads
    /\ call.ok
    /\ LET r == read_exact(input, pos, n)
           boundary == 8 * ((call.next + 7) \div 8)
       IN  /\ bit_reader' = borrow_reader_from_boundary(bit_reader)
           /\ pos' = IF r.ok THEN r.pos ELSE pos
           /\ call' = [op |-> "borrow", k |-> call.k + 1, ok |-> r.ok,
                       err |-> r.err, len |-> n, seq |-> BitSequenceNew(0, 0),
                       bytes |-> IF r.ok THEN r.bytes ELSE <<>>, at |-> call.next,
                       next |-> IF r.ok THEN boundary + 8 * n ELSE boundary,
                       before |-> [reader |-> bit_reader, pos |-> pos]]
    /\ UNCHANGED <<input, chunk, tracker, is_avail, output, pc, result, member, expect,
                   coding, varsTW, varsLen>>

NextBits ==
    \/ \E len \in BitCounts : ReadBits(len)
    \/ \E n \in 0..MaxBorrow : BorrowRead(n)

SpecBits == InitBits /\ [][NextBits]_vars

----------------------------------------------------------------------------
(* SpecHuff: from_lengths on one code-length vector, then decode_symbol on  *)
(* bit sequences and read_symbol on a bit stream.  `call.lengths` is the    *)
(* vector, `call.next` the number of stream bits the symbols read so far    *)
(* take up by their code lengths.                                           *)

MaxQueryLen == 4

MaxSymbols == 8

\* The vectors of the tests, a 15-bit code, an all-zero and an empty vector,
\* two over-subscribed vectors, and the fixed distance vector.
LengthVectors ==
    {[kind |-> "value", lengths |-> <<2, 3, 4, 3, 3, 4, 2>>],
     [kind |-> "value", lengths |-> <<3, 4, 5, 5, 0, 0, 6, 6, 4, 0, 6, 0, 7>>],
     [kind |-> "value", lengths |-> <<1, 15>>],
     [kind |-> "value", lengths |-> <<0, 0>>],
     [kind |-> "value", lengths |-> <<>>],
     [kind |-> "value", lengths |-> <<1, 1, 1>>],
     [kind |-> "value", lengths |-> <<2, 2, 2, 2, 2>>],
     [kind |-> "treecode", lengths |-> <<1, 2, 3, 3>>],
     [kind |-> "distance", lengths |-> FixedDistanceLengths]}

\* The data of tests::read_symbol, a 15-bit codeword, fifteen bits that match
\* no codeword, and an empty stream.
SymbolInputs == {<<185, 202, 237>>, <<1, 0>>, <<255, 255>>, <<>>}

InitHuff ==
    /\ input \in SymbolInputs
    /\ chunk = 1
    /\ pos = 0
    /\ bit_reader = BitReaderNew
    /\ coding = Err("none")
    /\ \E v \in LengthVectors :
          call = [op |-> "new", k |-> 0, kind |-> v.kind, lengths |-> v.lengths,
                  ok |-> TRUE, err |-> "", seq |-> BitSequenceNew(0, 0),
                  some |-> FALSE, value |-> 0, at |-> 0, next |-> 0]
    /\ Quiet

\* HuffmanCoding::<T>::from_lengths(&lengths)
FromLengths ==
    /\ call.op = "new"
    /\ coding' = from_lengths(call.kind, call.lengths)
    /\ call' = [call EXCEPT !.op = "from_lengths", !.ok = coding'.ok,
                            !.err = coding'.err]
    /\ UNCHANGED <<varsGz, varsTW, varsLen>>

\* code.decode_symbol(BitSequence::new(bits, len))
DecodeSymbol(bits, len) ==
    /\ call.op # "new"
    /\ coding.ok
    /\ call.ok
    /\ LET seq == BitSequenceNew(bits, len)
           r   == decode_symbol(coding.map, seq)
       IN  call' = [call EXCEPT !.op = "decode_symbol", !.seq = seq,
                                !.some = r.some, !.value = r.value]
    /\ UNCHANGED <<coding, varsGz, varsTW, varsLen>>

\* code.read_symbol(&mut reader).  An error ends the run.
ReadSymbol ==
    /\ call.op # "new"
    /\ coding.ok
    /\ call.ok
    /\ call.k < MaxSymbols
    /\ LET r == read_symbol(coding.map, input, bit_reader, pos)
       IN  /\ bit_reader' = IF r.ok THEN r.reader ELSE bit_reader
           /\ pos' = IF r.ok THEN r.pos ELSE pos
           /\ call' = [call EXCEPT !.op = "read_symbol", !.k = @ + 1,
                          !.ok = r.ok, !.err = r.err,
                          !.some = r.ok,
                          !.value = IF r.ok THEN r.value ELSE 0,
                          !.at = call.next,
                          !.next = IF r.ok THEN @ + call.lengths[r.value + 1] ELSE @]
    /\ UNCHANGED <<input, chunk, tracker, is_avail, output, pc, result, member, expect,
                   coding, varsTW, varsLen>>

NextHuff ==
    \/ FromLengths
    \/ \E len \in 0..MaxQueryLen : \E bits \in 0..(Pow2(len) - 1) : DecodeSymbol(bits, len)
    \/ ReadSymbol

SpecHuff == InitHuff /\ [][NextHuff]_vars

----------------------------------------------------------------------------
(* SpecBlocks: next_block called again and again on one DeflateReader over  *)
(* a DEFLATE stream that other bytes may follow.  `output` collects the     *)
(* blocks returned, `expect` holds the stream's payload.                    *)

MaxBlockCalls == 4

\* What follows the DEFLATE stream in the source: nothing, an empty stored
\* block, a byte of ones.
Tails == {<<>>, <<1, 0, 0, 255, 255>>, <<255>>}

InitBlocks ==
    /\ \E s \in Streams, tail \in Tails :
          /\ input = s.deflate \o tail
          /\ expect = [ends |-> <<Len(s.deflate)>>, payloads |-> <<s.payload>>,
                       crcs |-> <<s.crc>>, valid |-> s.valid, fixed |-> s.fixed]
    /\ chunk = 1
    /\ pos = 0
    /\ bit_reader = DeflateReaderNew.bit_reader
    /\ tracker = DeflateReaderNew.tracker
    /\ is_avail = DeflateReaderNew.is_avail
    /\ output = <<>>
    /\ pc = "idle"
    /\ result = "running"
    /\ member = NoMember
    /\ coding = Err("none")
    /\ call = [op |-> "new", k |-> 0, some |-> FALSE, ok |-> TRUE, err |-> "",
               block |-> <<>>,
               before |-> [reader |-> BitReaderNew, pos |-> 0, is_avail |-> TRUE,
                           output |-> <<>>]]
    /\ IdleTW
    /\ IdleLen

\* deflate_reader.next_block().  An error ends the run.
CallNextBlock ==
    /\ call.k < MaxBlockCalls
    /\ call.ok
    /\ LET nb == next_block(input, bit_reader, pos, tracker, is_avail)
           rb == nb.res
           read == nb.some /\ rb.ok
       IN  /\ is_avail' = rb.is_avail
           /\ bit_reader' = IF read THEN rb.reader ELSE bit_reader
           /\ pos' = IF read THEN rb.pos ELSE pos
           /\ tracker' = IF nb.some THEN rb.writer ELSE tracker
           /\ output' = IF read THEN output \o rb.block ELSE output
           /\ call' = [op |-> "next_block", k |-> call.k + 1, some |-> nb.some,
                       ok |-> rb.ok, err |-> rb.err,
                       block |-> IF read THEN rb.block ELSE <<>>,
                       before |-> [reader |-> bit_reader, pos |-> pos,
                                   is_avail |-> is_avail, output |-> output]]
    /\ UNCHANGED <<input, chunk, pc, result, member, expect, coding, varsTW, varsLen>>

NextBlocks == CallNextBlock

SpecBlocks == InitBlocks /\ [][NextBlocks]_vars

----------------------------------------------------------------------------
(* SpecTok: the arithmetic of the symbol loop on one length token or one    *)
(* distance token and the value of its extra bits.  The loop is the same    *)
(* text in the fixed and the dynamic branch of read_block.                  *)

\* A length code with a value of the extra bits its token asks for.
LengthCases ==
    {[kind |-> "length", code |-> c, extra |-> e] :
        c \in 257..285, e \in 0..(Pow2(5) - 1)}

\* A distance code with a value of the extra bits its token asks for.
DistanceCases ==
    {[kind |-> "distance", code |-> c, extra |-> e] :
        c \in 0..29, e \in 0..(Pow2(13) - 1)}

InitTok ==
    /\ \E c \in LengthCases \cup DistanceCases :
          /\ c.extra < Pow2(IF c.kind = "length" THEN LitLenExtraBits(c.code)
                            ELSE DistanceExtraBits(c.code))
          /\ call = [op |-> "new", k |-> 0, kind |-> c.kind, code |-> c.code,
                     extra |-> c.extra, extra_bits |-> 0, value |-> 0]
    /\ coding = Err("none")
    /\ IdleGz
    /\ IdleTW
    /\ IdleLen

\* LitLenToken::Length of the code and `length` of the symbol loop.
ComputeLength ==
    /\ call.op = "new"
    /\ call.kind = "length"
    /\ call' = [call EXCEPT !.op = "length", !.k = 1,
                            !.extra_bits = LitLenExtraBits(call.code),
                            !.value = LengthOf(call.code, call.extra)]
    /\ UNCHANGED <<coding, varsGz, varsTW, varsLen>>

\* DistanceToken of the code and `distance` of the symbol loop.
ComputeDistance ==
    /\ call.op = "new"
    /\ call.kind = "distance"
    /\ call' = [call EXCEPT !.op = "distance", !.k = 1,
                            !.extra_bits = DistanceExtraBits(call.code),
                            !.value = DistanceOf(call.code, call.extra)]
    /\ UNCHANGED <<coding, varsGz, varsTW, varsLen>>

NextTok == ComputeLength \/ ComputeDistance

SpecTok == InitTok /\ [][NextTok]_vars

----------------------------------------------------------------------------
(* Claims about decompress, checked under Spec (C4 under SpecLen) *)

\* What a run on a valid input has to write.
Payload == Flatten(expect.payloads)

\* C1: for a member whose DEFLATE payload is one final fixed-Huffman block,
\* read_block builds both fixed tables without error and decompress returns
\* success with exactly the encoded literals as output.
C1_FixedBlockDecodes ==
    (expect.fixed /\ pc = "done") =>
        /\ FixedLitlenCoding.ok
        /\ FixedDistanceCoding.ok
        /\ result = "ok"
        /\ output = Payload

\* C2: on a concatenation of k >= 0 valid members decompress returns success
\* with the members' payloads in order as output, and it returns success only
\* when the peek at the source found no more bytes.
C2_ConcatenationDecodes ==
    /\ (expect.valid /\ pc = "done") => (result = "ok" /\ output = Payload)
    /\ result = "ok" => pos = Len(input)

\* decompress is about to read the trailer of the current member.
AtTrailer == pc = "blocks" /\ result = "running" /\ ~is_avail

\* C3: after the last block of a member the source stands at the first byte
\* after the byte holding the last DEFLATE bit, the digest was fed exactly the
\* bytes the member emitted, the trailer is read from there, decompress
\* returns an error whenever the trailer is cut short or its CRC-32 differs
\* from the CRC-32 of the emitted bytes (expect.crcs holds that of every
\* member's payload), and it goes on to the next member only if the CRC
\* matches.
C3_TrailerCrcChecked ==
    /\ [](AtTrailer => /\ pos = expect.ends[member.n]
                       /\ tracker.digest = expect.payloads[member.n])
    /\ [][AtTrailer =>
            /\ (pos + 8 > Len(input)) => result' \notin {"running", "ok"}
            /\ (pos + 8 <= Len(input)
                /\ SubSeq(input, pos + 1, pos + 4) # expect.crcs[member.n])
                   => result' \notin {"running", "ok"}
            /\ (pc' = "peek") =>
                   /\ pos + 8 <= Len(input)
                   /\ SubSeq(input, pos + 1, pos + 4) = expect.crcs[member.n]
                   /\ pos' = pos + 8]_vars

\* C3 witness: a member whose last block ended in the middle of a byte was
\* rejected for a flipped CRC byte in its trailer.
C3_Witness ==
    /\ result = ErrCrc
    /\ member.btype = "dynamic"
    /\ bit_reader.len > 0
    /\ output = Abbbb

\* C4: a member that emitted n bytes passes the size check exactly when
\* ISIZE = n mod 2^32, also for n >= 2^32.
C4_IsizeModulo ==
    len_ok # "none" => (len_ok = "pass" <=> data_size = SubSeq(byte_n, 1, 4))

\* decompress is about to read a block.
AtBlock == pc = "blocks" /\ result = "running" /\ is_avail

\* The three header bits of the next block and the source position after them.
NextHeader == read_bits(input, bit_reader, pos, 3)

\* C5: a stored block takes LEN and NLEN from the two whole bytes pairs after
\* the byte of its header bits, whatever the rest of that byte holds; with
\* LEN # ~NLEN & 0xFFFF the run fails and nothing is emitted; otherwise
\* exactly the next LEN source bytes are emitted in order, the source stands
\* after them and the bit reader holds no bits.
C5_StoredBlock ==
    [][(AtBlock /\ NextHeader.ok /\ NextHeader.seq.bits \div 2 = 0) =>
         LET q == NextHeader.pos
         IN  IF q + 4 > Len(input)
             THEN result' = ErrEof /\ output' = output
             ELSE LET LEN  == U16LE(input[q + 1], input[q + 2])
                      NLEN == U16LE(input[q + 3], input[q + 4])
                  IN  IF LEN # 65535 - NLEN
                      THEN result' = ErrNlen /\ output' = output
                      ELSE IF q + 4 + LEN > Len(input)
                      THEN result' = ErrEof /\ output' = output
                      ELSE /\ result' = "running"
                           /\ output' = output \o SubSeq(input, q + 5, q + 4 + LEN)
                           /\ tracker'.byte_n = tracker.byte_n + LEN
                           /\ pos' = q + 4 + LEN
                           /\ bit_reader'.len = 0]_vars

\* C5 witness: a stored block was decoded whose header bits shared their
\* byte with the end of the block before and with set padding bits.
C5_Witness ==
    /\ member.btype = "stored"
    /\ member.blocks = 2
    /\ result = "running"
    /\ output = Abbbb \o Abc
    /\ bit_reader.len = 0

\* The bytes the current member has written: the output without what the
\* members before it wrote.
MemberOutput ==
    Drop(output, Len(Flatten(SubSeq(expect.payloads, 1, member.n - 1))))

\* The next block is the dynamic block of one copy of length 3 from
\* distance 3, starting at a byte boundary.
AtBackRef ==
    /\ AtBlock
    /\ bit_reader.len = 0
    /\ pos + Len(BackRefOnly.deflate) <= Len(input)
    /\ SubSeq(input, pos + 1, pos + Len(BackRefOnly.deflate)) = BackRefOnly.deflate

\* C19: the window, the byte count and the digest of the TrackingWriter hold
\* exactly what the current member has written, whatever number of blocks
\* and members came before; a copy from distance 3 succeeds when the current
\* member has written three bytes or more, in earlier blocks, and takes
\* them; it fails when the current member has written less, also when the
\* members before wrote enough.
C19_WindowPerMember ==
    /\ [](pc = "blocks" =>
            /\ byte_count(tracker) = Len(MemberOutput)
            /\ tracker.digest = MemberOutput
            /\ tracker.buffer = Reverse(MemberOutput))
    /\ [][AtBackRef =>
            IF Len(MemberOutput) >= 3
            THEN /\ result' = "running"
                 /\ output' = output \o Drop(MemberOutput, Len(MemberOutput) - 3)
            ELSE /\ result' = ErrBackInTime
                 /\ output' = output]_vars

\* C19 witness: the second member of an input failed on a copy from
\* distance 3 as its first token, after a first member that wrote six bytes,
\* three of them by a copy from its own earlier block.
C19_Witness ==
    /\ result = ErrBackInTime
    /\ member.n = 2
    /\ member.blocks = 1
    /\ output = Abc \o Abc
    /\ tracker.byte_n = 0

\* decompress is about to read, at pos, a member header with the two ID
\* bytes and FLG.FEXTRA set, and the source holds XLEN and XLEN more bytes.
AtExtraHeader ==
    /\ pc = "peek"
    /\ result = "running"
    /\ pos + 12 <= Len(input)
    /\ input[pos + 1] = ID1 /\ input[pos + 2] = ID2
    /\ bit(input[pos + 4], FEXTRA_OFFSET)
    /\ pos + 12 + U16LE(input[pos + 11], input[pos + 12]) <= Len(input)

\* The name, comment and header CRC of the header at p, parsed from the byte
\* after the XLEN bytes of extra data.
AfterExtra(inp, p) ==
    Let(p + 12 + U16LE(inp[p + 11], inp[p + 12]), LAMBDA q :
    Try(IF bit(inp[p + 4], FNAME_OFFSET) THEN read_cstring(inp, q, <<>>)
        ELSE HdrStep(q, <<>>), LAMBDA name :
    Try(IF bit(inp[p + 4], FCOMMENT_OFFSET) THEN read_cstring(inp, name.pos, <<>>)
        ELSE HdrStep(name.pos, <<>>), LAMBDA comment :
        read_hcrc(inp, comment.pos, inp[p + 4],
                  SubSeq(inp, p + 1, q) \o name.bytes \o comment.bytes))))

\* C20: a header with FLG.FEXTRA whose XLEN bytes of extra data are in the
\* source is never rejected for missing extra bytes, however the source
\* splits its data into reads, and its name, comment and header CRC are
\* parsed from the byte after the extra data: when they are right and the
\* method is DEFLATE, the blocks are read from the byte after them.
C20_ExtraFieldConsumed ==
    [][AtExtraHeader =>
         /\ result' # ErrExtra
         /\ (AfterExtra(input, pos).ok /\ input[pos + 3] = CM_DEFLATE) =>
                (result' = "running" /\ pos' = AfterExtra(input, pos).pos)]_vars

\* The payloads of the members before the current one.
EarlierPayloads == Flatten(SubSeq(expect.payloads, 1, member.n - 1))

\* C21: the sink gets the bytes of a block only when read_block has
\* returned them.  A step that reads a block either succeeds and appends to
\* the output exactly the bytes that block wrote to the tracker, or fails
\* and leaves the output as it was; so when decompress has failed inside a
\* block, the output is the payloads of the members before followed by what
\* the blocks before wrote, and what the tracker digested is that part of
\* the current member followed by the bytes the failed block had written,
\* which are still in the tracker's Vec.
C21_BlockForwardedWhole ==
    /\ [][AtBlock =>
            IF result' = "running"
            THEN /\ tracker'.inner.data = <<>>
                 /\ tracker'.digest = tracker.digest \o Drop(output', Len(output))
                 /\ SubSeq(output', 1, Len(output)) = output
            ELSE /\ output' = output
                 /\ tracker'.digest = tracker.digest \o tracker'.inner.data]_vars
    /\ []((pc = "done" /\ member.btype = "failed") =>
            /\ SubSeq(output, 1, Len(EarlierPayloads)) = EarlierPayloads
            /\ tracker.digest = MemberOutput \o tracker.inner.data)
    /\ [](pc = "blocks" =>
            (tracker.inner.data = <<>> /\ output = EarlierPayloads \o tracker.digest))

\* C21 witness: the second block of the second member failed at the end of
\* the input after it had written nine bytes; the output is the first
\* member's "abbbbabc" and the "ab" of the block before.
C21_Witness ==
    /\ pc = "done"
    /\ result = ErrEof
    /\ member = [n |-> 2, blocks |-> 2, btype |-> "failed"]
    /\ Len(tracker.inner.data) = 9
    /\ output = Abbbb \o Abc \o <<97, 98>>

----------------------------------------------------------------------------
(* Claims about the TrackingWriter, checked under SpecTW *)

\* The bytes the sink of the writer under test has accepted, oldest first.
Accepted == writer.inner.data

\* C6: after any sequence of write and write_previous calls, including calls
\* the sink accepts only partially or rejects, byte_count() is the number of
\* bytes the sink accepted, the digest was fed exactly those bytes in order,
\* the window is their most recent part, and a write counts exactly the size
\* it returns (0 changes nothing).
C6_CountsAcceptedBytes ==
    /\ byte_count(writer) = Len(Accepted)
    /\ writer.digest = Accepted
    /\ writer.buffer =
           Reverse(Drop(Accepted, Len(Accepted) - Min(Len(Accepted), HISTORY_SIZE)))
    /\ ret.op = "write" =>
           /\ ret.size <= ret.len
           /\ byte_count(writer) = ret.n0 + ret.size
           /\ ret.outcome = "err" => ret.size = 0

\* C6 witness: a write the sink accepted only in part, after an earlier call.
C6_Witness ==
    /\ ret.op = "write" /\ ret.outcome = "ok"
    /\ 0 < ret.size /\ ret.size < ret.len
    /\ ret.n0 > 0

\* C7: the window is never longer than 32768, its length is
\* min(byte_count, 32768), and the byte at distance d is the d-th most recent
\* accepted byte.
C7_WindowIsRecentBytes ==
    /\ Len(writer.buffer) <= 32768
    /\ Len(writer.buffer) = Min(byte_count(writer), 32768)
    /\ \A d \in 1..Len(writer.buffer) :
           writer.buffer[d] = Accepted[Len(Accepted) + 1 - d]

\* C7 witness: a byte was appended to a window that was already full.
C7_Witness ==
    /\ ret.n0 >= 32768
    /\ ret.size > 0
    /\ byte_count(writer) > 32768

C9_BadDistanceRejected ==
    [][(/\ calls' = calls + 1
        /\ ret'.op = "write_previous"
        /\ (ret'.dist > byte_count(writer) \/ ret'.dist > 32768))
       => (ret'.outcome = "err" /\ writer' = writer)]_vars

\* C9 witness: a distance within the byte count but beyond the window was
\* rejected.
C9_Witness ==
    /\ ret.op = "write_previous" /\ ret.outcome = "err"
    /\ ret.dist > 32768 /\ ret.dist <= ret.n0
    /\ ret.len > 0

\* C10: write_previous with distance = 0 and length > 0 returns an error.
C10_ZeroDistanceIsError ==
    (ret.op = "write_previous" /\ ret.dist = 0 /\ ret.len > 0) =>
        ret.outcome = "err"

----------------------------------------------------------------------------
(* BitReader *)

\* Bit i (from 0) of the stream: the bytes in order, each from its least
\* significant bit.
StreamBit(inp, i) == (inp[(i \div 8) + 1] \div Pow2(i % 8)) % 2

\* The n stream bits from bit `at` on, the first one as bit 0 of the value.
RECURSIVE StreamValue(_, _, _)
StreamValue(inp, at, n) ==
    IF n = 0 THEN 0
    ELSE StreamBit(inp, at) + 2 * StreamValue(inp, at + 1, n - 1)

\* C11: every read_bits(len), len in 0..16, returns the next len bits of the
\* stream (bytes in order, least significant bit first, first bit read as bit
\* 0, value below 2^len); read_bits(0) returns the empty sequence and leaves
\* reader and source as they were; a read of more bits than the stream still
\* holds fails with the end-of-file error, and only such a read fails.
C11_ReadBitsLsbFirst ==
    call.op = "read_bits" =>
        /\ call.ok <=> call.at + call.len <= 8 * Len(input)
        /\ ~call.ok => call.err = ErrEof
        /\ call.ok =>
              /\ call.seq = [bits |-> StreamValue(input, call.at, call.len),
                             len  |-> call.len]
              /\ call.seq.bits < Pow2(call.len)
        /\ call.len = 0 =>
              /\ call.seq = [bits |-> 0, len |-> 0]
              /\ bit_reader = call.before.reader
              /\ pos = call.before.pos

\* A read that starts inside a byte, crosses two byte boundaries and returns
\* 16 bits, after an earlier read.
C11_Witness ==
    /\ call.op = "read_bits" /\ call.ok /\ call.len = 16
    /\ call.at % 8 = 3
    /\ call.seq.bits = StreamValue(input, call.at, 16)
    /\ call.seq.bits > 255

Boundary(at) == 8 * ((at + 7) \div 8)

\* C12: after borrow_reader_from_boundary the reader holds no buffered bits,
\* the bytes read through the returned source are the next whole bytes of
\* the input, and the read_bits that follows starts at bit 0 of the first
\* byte after them.
C12_BorrowDropsBits ==
    /\ [](call.op = "borrow" =>
            /\ bit_reader.len = 0
            /\ call.ok <=> (Boundary(call.at) \div 8) + call.len <= Len(input)
            /\ call.ok =>
                  /\ call.bytes = SubSeq(input, (Boundary(call.at) \div 8) + 1,
                                         (Boundary(call.at) \div 8) + call.len)
                  /\ pos = (Boundary(call.at) \div 8) + call.len)
    /\ [][(call.op = "borrow" /\ call.ok /\ call'.op = "read_bits" /\ call'.ok) =>
            call'.seq = [bits |-> StreamValue(input, 8 * pos, call'.len),
                         len  |-> call'.len]]_vars

\* Three bits read, one byte read through the borrowed source (the five
\* unread bits of the first byte are dropped), then eight bits read from the
\* third byte: tests::borrow_reader_from_boundary.
C12_Witness ==
    /\ input = <<99, 219, 175>>
    /\ call.op = "read_bits" /\ call.ok /\ call.len = 8 /\ call.at = 16
    /\ call.seq.bits = 175
    /\ call.k = 3
    /\ call.before.reader.len = 0

----------------------------------------------------------------------------
(* Huffman tables *)

\* Positions (symbol index + 1) of the symbols that have a code length.
NonZero(L) == {i \in 1..Len(L) : L[i] # 0}

RECURSIVE KraftSum(_, _, _)
KraftSum(L, max, i) ==
    IF i > Len(L) THEN 0
    ELSE (IF L[i] = 0 THEN 0 ELSE Pow2(max - L[i])) + KraftSum(L, max, i + 1)

\* Kraft's inequality, scaled by 2^max.
Kraft(L) == Len(L) > 0 /\ KraftSum(L, SeqMax(L), 1) <= Pow2(SeqMax(L))

\* Every symbol that has a code length converts to a token of the table's type.
TokensOk(kind, L) == \A i \in NonZero(L) : TokenOk(kind, i - 1)

\* RFC 1951 3.2.2: the first codeword of length l follows all shorter
\* codewords, each extended to l bits.
RECURSIVE FirstCode(_, _, _)
FirstCode(L, l, short) ==
    IF short >= l THEN 0
    ELSE Cardinality({j \in 1..Len(L) : L[j] = short}) * Pow2(l - short)
         + FirstCode(L, l, short + 1)

\* The canonical codeword of the symbol at position i.
CanonCode(L, i) ==
    FirstCode(L, L[i], 1) + Cardinality({j \in 1..(i - 1) : L[j] = L[i]})

C14_KraftChecked ==
    (call.op \in {"from_lengths", "decode_symbol", "read_symbol"}
        /\ Len(call.lengths) > 0) =>
        /\ coding.ok <=> Kraft(call.lengths)
        /\ coding.ok => Cardinality(DOMAIN coding.map) = Cardinality(NonZero(call.lengths))

\* The l stream bits from bit `at` on, the first one as the most significant.
RECURSIVE MsbValue(_, _, _)
MsbValue(inp, at, l) ==
    IF l = 0 THEN 0 ELSE 2 * MsbValue(inp, at, l - 1) + StreamBit(inp, at + l - 1)

\* The lengths l at which the upcoming bits, first bit as most significant,
\* are a key of the table.
Hits(map, inp, at) ==
    {l \in 1..MAX_BITS : at + l <= 8 * Len(inp) /\ <<MsbValue(inp, at, l), l>> \in DOMAIN map}

\* C15: read_symbol returns the token whose codeword, first bit as the most
\* significant, is a prefix of the upcoming bits (the only such codeword in a
\* table of a Kraft vector) and consumes exactly its length in bits; with no
\* match in 15 bits it fails with "Unable to read symbol", and with the end of
\* the source before that, with the end-of-file error.
C15_ReadSymbolPrefix ==
    call.op = "read_symbol" =>
    LET hits == Hits(coding.map, input, call.at)
    IN  IF hits # {}
        THEN LET l == CHOOSE h \in hits : \A g \in hits : h <= g
             IN  /\ call.ok
                 /\ call.value = coding.map[<<MsbValue(input, call.at, l), l>>]
                 /\ 8 * pos - bit_reader.len = call.at + l
                 /\ call.next = call.at + l
                 /\ (Kraft(call.lengths) /\ TokensOk(call.kind, call.lengths)) =>
                        Cardinality(hits) = 1
        ELSE /\ ~call.ok
             /\ call.err = IF call.at + MAX_BITS <= 8 * Len(input)
                           THEN ErrNoSymbol ELSE ErrEof

\* tests::read_symbol: after 100 (symbol 1) the bits 1110 give symbol 2.
C15_Witness ==
    /\ call.op = "read_symbol" /\ call.ok
    /\ input = <<185, 202, 237>>
    /\ call.lengths = <<2, 3, 4, 3, 3, 4, 2>>
    /\ call.at = 3 /\ call.value = 2 /\ call.next = 7

----------------------------------------------------------------------------
(* The dynamic block header *)

\* RFC 1951 3.2.7: the HLIT + 257 + HDIST + 1 code lengths read as one
\* sequence (a repeat may run from the literal/length lengths into the
\* distance lengths) and then split, and the two tables of the parts.
FlatTrees(inp, r, p) ==
    Try(read_bits(inp, r, p, 5), LAMBDA hlit :
    Try(read_bits(inp, hlit.reader, hlit.pos, 5), LAMBDA hdist :
    Try(read_bits(inp, hdist.reader, hdist.pos, 4), LAMBDA hclen :
    Try(read_code_lengths(inp, hclen.reader, hclen.pos, Repeat(0, 19), 0,
                          hclen.seq.bits + 4), LAMBDA cl :
    Try(from_lengths("treecode", cl.lengths), LAMBDA code_decoder :
    Try(read_lengths_loop(code_decoder.map, inp, cl.reader, cl.pos, <<>>,
                          hlit.seq.bits + 257 + hdist.seq.bits + 1), LAMBDA flat :
        IF Len(flat.lengths) # hlit.seq.bits + 257 + hdist.seq.bits + 1
        THEN Err("too many code lengths")
        ELSE
    Try(from_lengths("litlen", SubSeq(flat.lengths, 1, hlit.seq.bits + 257)),
        LAMBDA litlen_coding :
    Try(from_lengths("distance",
                     SubSeq(flat.lengths, hlit.seq.bits + 258, Len(flat.lengths))),
        LAMBDA distance_coding :
        [ok |-> TRUE, err |-> "", reader |-> flat.reader, pos |-> flat.pos,
         litlen |-> litlen_coding.map, distance |-> distance_coding.map]))))))))

\* The block about to be read has BTYPE = 2.
AtDynamic == AtBlock /\ NextHeader.ok /\ NextHeader.seq.bits \div 2 = 2

\* C16: the header of a dynamic block is decoded as one sequence of
\* HLIT + 257 + HDIST + 1 code lengths that is then split: whenever that
\* reading gives two tables, decode_litlen_distance_trees gives the same two
\* tables and stops at the same bit.
C16_LengthsSpanSplit ==
    AtDynamic =>
        LET flat  == FlatTrees(input, NextHeader.reader, NextHeader.pos)
            trees == decode_litlen_distance_trees(input, NextHeader.reader, NextHeader.pos)
        IN  flat.ok =>
                /\ trees.ok
                /\ trees.litlen = flat.litlen
                /\ trees.distance = flat.distance
                /\ trees.reader = flat.reader
                /\ trees.pos = flat.pos

----------------------------------------------------------------------------
(* next_block *)

\* C17: is_avail is true at first; a next_block call decodes a block exactly
\* when is_avail is true, and then is_avail is (BFINAL = 0) of the block just
\* read; once a block with BFINAL = 1 has been decoded every later call
\* returns nothing and consumes nothing from the source.
C17_NextBlockUntilFinal ==
    /\ [](call.op = "new" => is_avail)
    /\ [](call.op = "next_block" =>
            /\ call.some <=> call.before.is_avail
            /\ (call.some /\ call.ok) =>
                  is_avail = (StreamBit(input, 8 * call.before.pos
                                               - call.before.reader.len) = 0)
            /\ ~call.some =>
                  /\ call.block = <<>>
                  /\ ~is_avail
                  /\ pos = call.before.pos
                  /\ bit_reader = call.before.reader
            /\ output = call.before.output \o call.block)
    /\ [][(call.op = "next_block" /\ call.ok /\ ~is_avail) =>
            (~call'.some /\ call'.ok /\ ~is_avail' /\ pos' = pos /\ output' = output)]_vars

\* "ab" and "c" returned by two calls, then two calls that return nothing
\* and leave the empty stored block behind the stream unread.
C17_Witness ==
    /\ input = StoredTwo.deflate \o <<1, 0, 0, 255, 255>>
    /\ call.op = "next_block" /\ call.k = 4 /\ ~call.some
    /\ output = Abc
    /\ pos = Len(StoredTwo.deflate)

----------------------------------------------------------------------------
(* Lengths and distances *)

\* RFC 1951 3.2.5: base and number of extra bits of the length codes
\* 257..285 and of the distance codes 0..29.
RfcLengthBase ==
    <<3, 4, 5, 6, 7, 8, 9, 10, 11, 13, 15, 17, 19, 23, 27, 31, 35, 43, 51, 59,
      67, 83, 99, 115, 131, 163, 195, 227, 258>>

RfcLengthExtra ==
    <<0, 0, 0, 0, 0, 0, 0, 0, 1, 1, 1, 1, 2, 2, 2, 2, 3, 3, 3, 3,
      4, 4, 4, 4, 5, 5, 5, 5, 0>>

RfcDistanceBase ==
    <<1, 2, 3, 4, 5, 7, 9, 13, 17, 25, 33, 49, 65, 97, 129, 193, 257, 385, 513, 769,
      1025, 1537, 2049, 3073, 4097, 6145, 8193, 12289, 16385, 24577>>

RfcDistanceExtra ==
    <<0, 0, 0, 0, 1, 1, 2, 2, 3, 3, 4, 4, 5, 5, 6, 6, 7, 7, 8, 8,
      9, 9, 10, 10, 11, 11, 12, 12, 13, 13>>

\* C18: for every length code and distance code and every value of the extra
\* bits, the symbol loop asks for the RFC's number of extra bits and computes
\* base + extra with the RFC's base, in 3..258 and 1..32768, which fits u16.
C18_LengthDistanceTables ==
    /\ call.op = "length" =>
          /\ call.extra_bits = RfcLengthExtra[call.code - 256]
          /\ call.value = RfcLengthBase[call.code - 256] + call.extra
          /\ 3 <= call.value /\ call.value <= 258
    /\ call.op = "distance" =>
          /\ call.extra_bits = RfcDistanceExtra[call.code + 1]
          /\ call.value = RfcDistanceBase[call.code + 1] + call.extra
          /\ 1 <= call.value /\ call.value <= 32768

\* Distance code 29 with all 13 extra bits set: 32768.
C18_Witness ==
    /\ call.op = "distance" /\ call.code = 29 /\ call.extra = 8191
    /\ call.extra_bits = 13 /\ call.value = 32768

============================================================================
